---- MODULE Spec2Model ----
(***************************************************************************)
(* Blind: execution-event capture and reconstruction.                      *)
(*                                                                         *)
(* The model follows the collector side of the repository:                 *)
(*   - the webview store (webview/src/store/useStore.ts), its cursor and   *)
(*     playback operations and the Timeline effects that drive playback;   *)
(*   - the derived views: the call stack (CallStack, InspectorEnhanced)    *)
(*     and the filtered call tree (FunctionCallTree, useTreeFilters);      *)
(*   - the TraceServer: newline framing of the tracer's byte stream,       *)
(*     parsing, buffering and forwarding to the visualizer panel.          *)
(***************************************************************************)
EXTENDS Integers, Sequences, FiniteSets, TLC

VARIABLES
    \* ---- webview store (useStore.ts:228-238)
    events,             \* TraceEvent[]
    isPaused,
    projectFiles,       \* Map<string, ProjectFile>, a function on the registered paths
    crossFileCalls,
    currentEventIndex,
    isPlaying,
    playbackSpeed,
    \* ---- tree filters (useTreeFilters.ts:20-26)
    filters,
    \* ---- tracer connections and TraceServer (TraceServer.ts:26-32,122)
    wire,               \* per connection: bytes written by the tracer, not yet delivered
    connBuf,            \* per connection: `buffer` of handleConnection
    eventBuffer,
    totalEvents,
    parseErrors,        \* number of console.error calls of handleTraceEvent
    nextId,             \* per connection: the tracer's event counter
    panelOpen,          \* FlowVisualizerPanel.currentPanel is set
    toWebview,          \* messages posted to the webview, not yet handled by it
    \* ---- history, for stating the claims
    received,           \* per connection: every character delivered so far
    handled,            \* per connection: the messages given to handleTraceEvent
    handledAll,         \* the same, over all connections, in handling order
    \* ---- the extension host (part_001:83-112, TraceServer.ts:26-29)
    panels,             \* every webview panel created so far: "live" or "disposed"
    isRunning,
    server,             \* this.server: 0 while null, else the number of a net.Server
    netServers,         \* every net.Server created so far: its state
    \* ---- the tracer's file tracking (COMPLETE_GUIDE.md:189-191)
    lastFile,           \* self.last_file, "" while None
    tracerFiles,        \* the keys of self.project_files
    tracerCalls,        \* self.cross_file_calls
    traced,             \* history: the events the tracer has built, in order
    \* ---- the tracer's transport (COMPLETE_GUIDE.md:184, 196-200, 362-378)
    tracerSocket,       \* self.socket: "none" while None, else "open"
    linkUp,             \* the connection to the extension works
    sentCount,          \* messages handed to the connection by sendall
    raised,             \* an exception has propagated out of the trace function
    lastOp,             \* the operation that produced the current state, with its argument
    quiescent           \* the environment has stopped issuing input

storeVars  == <<events, isPaused, projectFiles, crossFileCalls,
                currentEventIndex, isPlaying, playbackSpeed>>
probeVars  == <<tracerSocket, linkUp, sentCount, raised>>
tracerVars == <<lastFile, tracerFiles, tracerCalls, traced, probeVars>>
hostVars   == <<panels, isRunning, server, netServers>>
serverVars == <<wire, connBuf, eventBuffer, totalEvents, parseErrors, nextId,
                panelOpen, toWebview, received, handled, handledAll, tracerVars,
                hostVars>>
vars == <<storeVars, filters, serverVars, lastOp, quiescent>>

----------------------------------------------------------------------------
(* Bounds of the model *)

MaxEvents == 4
MaxDepth == 1
MaxSeek == 6
MaxWrites == 2
MaxTreeEvents == 3
MaxFilterEvents == 1
MaxHotEvents == 9
MaxFileEvents == 3
MaxTraced == 5
MaxCalls == 3
MaxViewEvents == 2
MaxRebuildEvents == 2
MaxExportEvents == 2
MaxPanels == 2
MaxServers == 3

(* parent_event_id: null.  Event ids are positive, so -1 stands for null. *)
Null == -1

Min(a, b) == IF a < b THEN a ELSE b
Max(a, b) == IF a > b THEN a ELSE b

Op(name, arg) == [op |-> name, arg |-> arg]

----------------------------------------------------------------------------
(* Events *)

CallTypes == {"function_call", "method_call"}
EventTypes == {"function_call", "method_call", "function_return", "method_return"}

FnNames == <<"f", "g", "h", "k">>

\* id of the most recent call event at the given depth, null when there is none
RECURSIVE LastCallAt(_, _, _)
LastCallAt(evs, i, d) ==
    IF i = 0 THEN Null
    ELSE IF evs[i].event_type \in CallTypes /\ evs[i].call_stack_depth = d
         THEN evs[i].event_id
         ELSE LastCallAt(evs, i - 1, d)

\* The next event of a single tracer run: ids count up, the function is the
\* one active at that depth, the parent is the caller one level up.
TracerEvent(evs, t, d) ==
    [event_id |-> Len(evs) + 1,
     event_type |-> t,
     file_path |-> "a.py",
     line_number |-> d + 1,
     function_name |-> FnNames[d + 1],
     class_name |-> "",
     call_stack_depth |-> d,
     parent_event_id |-> IF d = 0 THEN Null ELSE LastCallAt(evs, Len(evs), d - 1)]

StackEventTypes == {"function_call", "method_call", "function_return"}

----------------------------------------------------------------------------
(* Store operations: useStore.ts *)

\* addEvent (useStore.ts:241-261)
addEvent_Prepend(event) ==
    /\ events' = <<event>> \o events
    /\ projectFiles' =
         IF event.file_path \in DOMAIN projectFiles
         THEN [projectFiles EXCEPT ![event.file_path] =
                 [@ EXCEPT !.executedLines = @ \cup {event.line_number},
                           !.events = Append(@, event)]]
         ELSE projectFiles
addEvent_LogFirst(event) ==
    /\ events' = Append(events, event)
    /\ projectFiles' = projectFiles
addEvent(event) ==
    /\ events' = Append(events, event)
    /\ projectFiles' =
         IF event.file_path \in DOMAIN projectFiles
         THEN [projectFiles EXCEPT ![event.file_path] =
                 [@ EXCEPT !.executedLines = @ \cup {event.line_number},
                           !.events = Append(@, event)]]
         ELSE projectFiles

\* addFileMetadata (useStore.ts:270-289)
addFileMetadata_Overwrite(filePath, relativePath, code, lines, totalLines, timestamp) ==
    projectFiles' =
        [p \in DOMAIN projectFiles \cup {filePath} |->
            IF p = filePath
            THEN [filePath |-> filePath, relativePath |-> relativePath, code |-> code,
                  lines |-> lines, totalLines |-> totalLines, executedLines |-> {},
                  events |-> <<>>, firstSeen |-> timestamp]
            ELSE projectFiles[p]]
addFileMetadata(filePath, relativePath, code, lines, totalLines, timestamp) ==
    projectFiles' =
        IF filePath \notin DOMAIN projectFiles
        THEN [p \in DOMAIN projectFiles \cup {filePath} |->
                IF p = filePath
                THEN [filePath |-> filePath, relativePath |-> relativePath, code |-> code,
                      lines |-> lines, totalLines |-> totalLines, executedLines |-> {},
                      events |-> <<>>, firstSeen |-> timestamp]
                ELSE projectFiles[p]]
        ELSE projectFiles

\* addCrossFileCall (useStore.ts:291-294)
addCrossFileCall_Deduplicate(call) ==
    crossFileCalls' =
        IF \E k \in 1 .. Len(crossFileCalls) :
              /\ crossFileCalls[k].from_file = call.from_file
              /\ crossFileCalls[k].to_file = call.to_file
        THEN crossFileCalls
        ELSE Append(crossFileCalls, call)
addCrossFileCall(call) == crossFileCalls' = Append(crossFileCalls, call)

\* setCurrentEventIndex (useStore.ts:306-311)
ClampIndex_OffByOne(index, evs) == Max(-1, Min(index, Len(evs)))
ClampIndex(index, evs) == Max(-1, Min(index, Len(evs) - 1))

\* stepForward (useStore.ts:319-323)
StepForwardIndex_ToEnd(cur, evs) == Len(evs) - 1
StepForwardIndex(cur, evs) == Min(cur + 1, Len(evs) - 1)

\* stepBackward (useStore.ts:325-329)
StepBackwardIndex(cur) == Max(cur - 1, -1)

----------------------------------------------------------------------------
(* Derived view: the call stack *)

\* ascending array of a finite set of integers (Array.from(keys).sort((a, b) => a - b))
RECURSIVE SortedSeq(_)
SortedSeq(S) ==
    IF S = {} THEN <<>>
    ELSE LET m == CHOOSE x \in S : \A y \in S : x <= y
         IN <<m>> \o SortedSeq(S \ {m})

\* The backward scan "Find active calls at each depth level": i is the
\* 0-based index of the loop, depthMap the Map built so far.
RECURSIVE ScanDepths(_, _, _, _, _)
ScanDepths_ExcludeCurrentDepth(evs, i, currentDepth, callTypes, depthMap) ==
    IF i < 0 THEN depthMap
    ELSE LET event == evs[i + 1]
             depth == event.call_stack_depth
             dm == IF /\ event.event_type \in callTypes
                      /\ depth \notin DOMAIN depthMap
                      /\ depth < currentDepth
                   THEN depthMap @@ (depth :> event)
                   ELSE depthMap
         IN IF Cardinality(DOMAIN dm) = currentDepth + 1
            THEN dm
            ELSE ScanDepths(evs, i - 1, currentDepth, callTypes, dm)
ScanDepths(evs, i, currentDepth, callTypes, depthMap) ==
    IF i < 0 THEN depthMap
    ELSE LET event == evs[i + 1]
             depth == event.call_stack_depth
             dm == IF /\ event.event_type \in callTypes
                      /\ depth \notin DOMAIN depthMap
                      /\ depth <= currentDepth
                   THEN depthMap @@ (depth :> event)
                   ELSE depthMap
         IN IF Cardinality(DOMAIN dm) = currentDepth + 1
            THEN dm
            ELSE ScanDepths(evs, i - 1, currentDepth, callTypes, dm)

\* "Convert to sorted stack": one frame per depth found, shallowest first
DepthStack(evs, idx, callTypes) ==
    LET depthMap == ScanDepths(evs, idx, evs[idx + 1].call_stack_depth, callTypes, <<>>)
        depths == SortedSeq(DOMAIN depthMap)
    IN [k \in 1 .. Len(depths) |-> [event |-> depthMap[depths[k]], depth |-> depths[k]]]

\* CallStack component: only 'function_call' events are frames.  With the
\* cursor past the end of a non-empty log the component reads a field of
\* events[currentEventIndex] === undefined and the render throws.
CallStackThrows(evs, idx) == idx >= 0 /\ Len(evs) # 0 /\ idx >= Len(evs)

CallStack(evs, idx) ==
    IF idx < 0 \/ Len(evs) = 0 THEN <<>>
    ELSE IF CallStackThrows(evs, idx) THEN <<>>
    ELSE DepthStack(evs, idx, {"function_call"})

\* InspectorEnhanced: 'function_call' and 'method_call' events are frames;
\* no current event (cursor -1 or past the end) gives the empty stack.
InspectorCallStack(evs, idx) ==
    IF idx < 0 \/ idx >= Len(evs) THEN <<>>
    ELSE DepthStack(evs, idx, {"function_call", "method_call"})

FrameNames(stack) == [k \in 1 .. Len(stack) |-> stack[k].event.function_name]

----------------------------------------------------------------------------
(* Webview actions *)

Input == ~quiescent

\* App.handleMessage: a 'traceData' message is added to the log unless the
\* webview is paused, a 'fileMetadata' message registers its file, a
\* 'crossFileCall' message is recorded; 'fileUpdated' and unknown types are
\* only logged.
HandleMessage_IgnoresPause(message) ==
    CASE message.type = "traceData" ->
            /\ addEvent(message.data)
            /\ UNCHANGED crossFileCalls
      [] message.type = "fileMetadata" ->
            /\ addFileMetadata(message.data.file_path, message.data.relative_path,
                               message.data.code, message.data.lines,
                               message.data.total_lines, message.data.timestamp)
            /\ UNCHANGED <<events, crossFileCalls>>
      [] message.type = "crossFileCall" ->
            /\ addCrossFileCall(message.data)
            /\ UNCHANGED <<events, projectFiles>>
      [] OTHER -> UNCHANGED <<events, projectFiles, crossFileCalls>>
HandleMessage(message) ==
    CASE message.type = "traceData" ->
            /\ IF ~isPaused
               THEN addEvent(message.data)
               ELSE UNCHANGED <<events, projectFiles>>
            /\ UNCHANGED crossFileCalls
      [] message.type = "fileMetadata" ->
            /\ addFileMetadata(message.data.file_path, message.data.relative_path,
                               message.data.code, message.data.lines,
                               message.data.total_lines, message.data.timestamp)
            /\ UNCHANGED <<events, crossFileCalls>>
      [] message.type = "crossFileCall" ->
            /\ addCrossFileCall(message.data)
            /\ UNCHANGED <<events, projectFiles>>
      [] OTHER -> UNCHANGED <<events, projectFiles, crossFileCalls>>

\* a message reaches the webview
Receive_FollowsLatest(message, opName, arg) ==
    /\ Input
    /\ HandleMessage(message)
    /\ currentEventIndex' = Len(events') - 1
    /\ lastOp' = Op(opName, arg)
    /\ UNCHANGED <<isPaused, isPlaying,
                   playbackSpeed, filters, serverVars, quiescent>>
Receive(message, opName, arg) ==
    /\ Input
    /\ HandleMessage(message)
    /\ lastOp' = Op(opName, arg)
    /\ UNCHANGED <<isPaused, currentEventIndex, isPlaying,
                   playbackSpeed, filters, serverVars, quiescent>>

\* a trace event reaches the webview; the operation records whether the
\* webview was paused
AddTraceData(event) ==
    Receive([type |-> "traceData", data |-> event], "traceData", IF isPaused THEN 1 ELSE 0)

\* a file registration reaches the webview; the operation records whether
\* the path is already registered with another content
ReceiveFileMetadata(metadata) ==
    Receive([type |-> "fileMetadata", data |-> metadata], "fileMetadata",
            IF /\ metadata.file_path \in DOMAIN projectFiles
               /\ projectFiles[metadata.file_path].code # metadata.code
            THEN 1 ELSE 0)

\* a cross-file call reaches the webview
ReceiveCrossFileCall(call) ==
    /\ Len(crossFileCalls) < MaxCalls
    /\ Receive([type |-> "crossFileCall", data |-> call], "crossFileCall", 0)

ReceiveTraceData(event) ==
    /\ Len(events) < MaxEvents
    /\ AddTraceData(event)

Seek(index) ==
    /\ Input
    /\ currentEventIndex' = ClampIndex(index, events)
    /\ lastOp' = Op("seek", index)
    /\ UNCHANGED <<events, isPaused, projectFiles, crossFileCalls, isPlaying,
                   playbackSpeed, filters, serverVars, quiescent>>

StepForward ==
    /\ Input
    /\ currentEventIndex' = StepForwardIndex(currentEventIndex, events)
    /\ lastOp' = Op("stepForward", 0)
    /\ UNCHANGED <<events, isPaused, projectFiles, crossFileCalls, isPlaying,
                   playbackSpeed, filters, serverVars, quiescent>>

StepBackward ==
    /\ Input
    /\ currentEventIndex' = StepBackwardIndex(currentEventIndex)
    /\ lastOp' = Op("stepBackward", 0)
    /\ UNCHANGED <<events, isPaused, projectFiles, crossFileCalls, isPlaying,
                   playbackSpeed, filters, serverVars, quiescent>>

\* togglePlayback (useStore.ts:313-314)
TogglePlayback ==
    /\ Input
    /\ isPlaying' = ~isPlaying
    /\ lastOp' = Op("togglePlayback", 0)
    /\ UNCHANGED <<events, isPaused, projectFiles, crossFileCalls, currentEventIndex,
                   playbackSpeed, filters, serverVars, quiescent>>

\* togglePause (useStore.ts:266-267)
TogglePause ==
    /\ Input
    /\ isPaused' = ~isPaused
    /\ lastOp' = Op("togglePause", 0)
    /\ UNCHANGED <<events, projectFiles, crossFileCalls, currentEventIndex, isPlaying,
                   playbackSpeed, filters, serverVars, quiescent>>

\* setPlaybackSpeed (useStore.ts:316-317), from the Timeline's speed buttons
\* (FilterPanel.tsx:275).  The speed sets the timer's period, 1000 / speed
\* ms; the model has no clock, so the value is kept as written.
PlaybackSpeeds == {"0.5", "1", "2", "4"}

SetPlaybackSpeed(speed) ==
    /\ Input
    /\ playbackSpeed' = speed
    /\ lastOp' = Op("setPlaybackSpeed", 0)
    /\ UNCHANGED <<events, isPaused, projectFiles, crossFileCalls, currentEventIndex,
                   isPlaying, filters, serverVars, quiescent>>

\* goToStart (useStore.ts:331-332)
GoToStart ==
    /\ Input
    /\ currentEventIndex' = -1
    /\ isPlaying' = FALSE
    /\ lastOp' = Op("goToStart", 0)
    /\ UNCHANGED <<events, isPaused, projectFiles, crossFileCalls,
                   playbackSpeed, filters, serverVars, quiescent>>

\* goToEnd (useStore.ts:334-337)
GoToEnd ==
    /\ Input
    /\ currentEventIndex' = Len(events) - 1
    /\ isPlaying' = FALSE
    /\ lastOp' = Op("goToEnd", 0)
    /\ UNCHANGED <<events, isPaused, projectFiles, crossFileCalls,
                   playbackSpeed, filters, serverVars, quiescent>>

\* clearEvents (useStore.ts:263-264)
ClearEvents ==
    /\ Input
    /\ events' = <<>>
    /\ lastOp' = Op("clearEvents", 0)
    /\ UNCHANGED <<isPaused, projectFiles, crossFileCalls, currentEventIndex, isPlaying,
                   playbackSpeed, filters, serverVars, quiescent>>

\* clearProjectData (useStore.ts:296-303)
ClearProjectData ==
    /\ Input
    /\ events' = <<>>
    /\ projectFiles' = <<>>
    /\ crossFileCalls' = <<>>
    /\ currentEventIndex' = -1
    /\ isPlaying' = FALSE
    /\ lastOp' = Op("clearProjectData", 0)
    /\ UNCHANGED <<isPaused, playbackSpeed, filters, serverVars, quiescent>>

\* Timeline, "Auto-advance when playing": the interval set up while playing
\* and before the end calls stepForward once per period (FilterPanel.tsx:189-199)
PlaybackTick ==
    /\ isPlaying
    /\ ~(currentEventIndex >= Len(events) - 1)
    /\ currentEventIndex' = StepForwardIndex(currentEventIndex, events)
    /\ lastOp' = Op("tick", 0)
    /\ UNCHANGED <<events, isPaused, projectFiles, crossFileCalls, isPlaying,
                   playbackSpeed, filters, serverVars, quiescent>>

\* Timeline, "Stop playing when reaching the end" (FilterPanel.tsx:202-206)
AtEnd_Strict == currentEventIndex > Len(events) - 1
AtEnd == currentEventIndex >= Len(events) - 1

TimelineAutoStop ==
    /\ isPlaying
    /\ AtEnd
    /\ isPlaying' = ~isPlaying
    /\ lastOp' = Op("autoStop", 0)
    /\ UNCHANGED <<events, isPaused, projectFiles, crossFileCalls, currentEventIndex,
                   playbackSpeed, filters, serverVars, quiescent>>

\* The environment stops: from here on only timers and effects run.
Quiesce ==
    /\ Input
    /\ quiescent' = TRUE
    /\ lastOp' = Op("quiesce", 0)
    /\ UNCHANGED <<storeVars, filters, serverVars>>

----------------------------------------------------------------------------
(* Derived views: the line heat map and the coverage *)

\* CodeContext: the event at the cursor, if there is one
HasCurrentEvent(evs, idx) == idx >= 0 /\ idx < Len(evs)

\* CodeContext.lineExecutionCounts (CodeContext.tsx:107-121): for the file of
\* the event at the cursor, the number of events at or before the cursor on
\* each of its lines; empty without a current event or when the file is not
\* registered (no codeContext).
LineExecutionCounts_FromCursor(evs, idx, files) ==
    IF ~HasCurrentEvent(evs, idx) \/ evs[idx + 1].file_path \notin DOMAIN files
    THEN <<>>
    ELSE LET visibleEvents == SubSeq(evs, idx + 1, Len(evs))
             inFile == {i \in 1 .. Len(visibleEvents) :
                          visibleEvents[i].file_path = evs[idx + 1].file_path}
         IN [line \in {visibleEvents[i].line_number : i \in inFile} |->
                Cardinality({i \in inFile : visibleEvents[i].line_number = line})]
LineExecutionCounts(evs, idx, files) ==
    IF ~HasCurrentEvent(evs, idx) \/ evs[idx + 1].file_path \notin DOMAIN files
    THEN <<>>
    ELSE LET visibleEvents == SubSeq(evs, 1, idx + 1)
             inFile == {i \in 1 .. Len(visibleEvents) :
                          visibleEvents[i].file_path = evs[idx + 1].file_path}
         IN [line \in {visibleEvents[i].line_number : i \in inFile} |->
                Cardinality({i \in inFile : visibleEvents[i].line_number = line})]

\* lineExecutionCounts.get(line.number) || 0
ExecutionCountOfLine(counts, line) == IF line \in DOMAIN counts THEN counts[line] ELSE 0

\* Math.round(x / y * 100), for x >= 0 and y > 0
RoundedPercent(x, y) == (200 * x + y) \div (2 * y)

\* FileNode: coverage of a registered file (FileNode.tsx:115-117)
Coverage(file) ==
    IF file.totalLines > 0
    THEN RoundedPercent(Cardinality(file.executedLines), file.totalLines)
    ELSE 0

\* events.slice(0, end): end is clamped to the length
SliceTo(evs, end) == SubSeq(evs, 1, Min(Max(end, 0), Len(evs)))

\* FileNode.lineExecutionInfo (FileNode.tsx:127-150): for each line of the
\* file, the sequence numbers of the visible events on it.  The visible events
\* are those up to the cursor, "or all if not playing back" (cursor -1).
LineExecutionInfo_UpToCursor(evs, idx, filePath) ==
    LET visibleEvents == SliceTo(evs, idx + 1)
        inFile == {i \in 1 .. Len(visibleEvents) : visibleEvents[i].file_path = filePath}
    IN [line \in {visibleEvents[i].line_number : i \in inFile} |->
           {i \in inFile : visibleEvents[i].line_number = line}]
LineExecutionInfo(evs, idx, filePath) ==
    LET visibleEvents == IF idx >= 0 THEN SliceTo(evs, idx + 1) ELSE evs
        inFile == {i \in 1 .. Len(visibleEvents) : visibleEvents[i].file_path = filePath}
    IN [line \in {visibleEvents[i].line_number : i \in inFile} |->
           {i \in inFile : visibleEvents[i].line_number = line}]

\* FileNode: the lines drawn as executed (FileNode.tsx:186-194)
LinesShownExecuted(evs, idx, filePath) == DOMAIN LineExecutionInfo(evs, idx, filePath)

\* the tree's isInCurrentPath (part_007:119-122), eventIndex 0-based
isInCurrentPath(eventIndex, idx) ==
    IF idx < 0 THEN FALSE ELSE eventIndex <= idx

----------------------------------------------------------------------------
(* The tracer's file tracking: trace_function (COMPLETE_GUIDE.md:205-250) *)

\* the value last_file holds after an event in filename has been emitted
HeldFileAfter(filename) == filename

\* track_cross_file_call (COMPLETE_GUIDE.md:343-356); the event counter is
\* the number of events built so far
CallInfo(from_file, to_file) ==
    [type |-> "cross_file_call",
     from_file |-> from_file,
     to_file |-> to_file,
     from_event_id |-> Len(traced) - 1,
     to_event_id |-> Len(traced)]

\* trace_function for an event in filename: register the file on first
\* encounter, record a cross-file call when the file differs from the last
\* one, build the event with the next id.
TraceFunction(filename) ==
    /\ Input
    /\ Len(traced) < MaxTraced
    /\ tracerFiles' = tracerFiles \cup {filename}
    /\ tracerCalls' = IF lastFile # "" /\ lastFile # filename
                      THEN Append(tracerCalls, CallInfo(lastFile, filename))
                      ELSE tracerCalls
    /\ traced' = Append(traced, [event_id |-> Len(traced), file_path |-> filename])
    /\ lastFile' = HeldFileAfter(filename)
    /\ lastOp' = Op("trace", 0)
    /\ UNCHANGED <<storeVars, filters, wire, connBuf, eventBuffer, totalEvents,
                   parseErrors, nextId, panelOpen, toWebview, received, handled,
                   handledAll, hostVars, probeVars, quiescent>>

----------------------------------------------------------------------------
(* The tracer's transport: connect and send_event (COMPLETE_GUIDE.md:196-200,
   362-378) *)

\* The tracer's link as one hook firing reads and writes it.
ProbeState ==
    [socket |-> tracerSocket, sent |-> sentCount, raised |-> raised]

\* disconnect(): the socket is given up
disconnect(st) == [st EXCEPT !.socket = "none"]

\* send_event: nothing without a socket; sendall on a broken connection
\* raises, the exception is caught and printed and the tracer disconnects.
\* Once an exception is on its way out of the trace function nothing more of
\* the hook runs.
send_event_Unguarded(st) ==
    IF st.raised \/ st.socket = "none"
    THEN st
    ELSE IF linkUp
         THEN [st EXCEPT !.sent = @ + 1]
         ELSE [st EXCEPT !.raised = TRUE]

send_event(st) ==
    IF st.raised \/ st.socket = "none"
    THEN st
    ELSE IF linkUp
         THEN [st EXCEPT !.sent = @ + 1]
         ELSE disconnect(st)

\* send_message, used by register_file and track_cross_file_call
\* (COMPLETE_GUIDE.md:337, 356): sends a line the way send_event does
send_message(st) == send_event(st)

\* connect() (COMPLETE_GUIDE.md:196-200)
Connect ==
    /\ Input
    /\ tracerSocket = "none"
    /\ linkUp
    /\ tracerSocket' = "open"
    /\ lastOp' = Op("connect", 0)
    /\ UNCHANGED <<storeVars, filters, wire, connBuf, eventBuffer, totalEvents,
                   parseErrors, nextId, panelOpen, toWebview, received, handled,
                   handledAll, hostVars, lastFile, tracerFiles, tracerCalls, traced,
                   linkUp, sentCount, raised, quiescent>>

\* The connection breaks: the extension stops its server or goes away.
TransportFails ==
    /\ Input
    /\ linkUp
    /\ linkUp' = FALSE
    /\ lastOp' = Op("transportFails", 0)
    /\ UNCHANGED <<storeVars, filters, wire, connBuf, eventBuffer, totalEvents,
                   parseErrors, nextId, panelOpen, toWebview, received, handled,
                   handledAll, hostVars, lastFile, tracerFiles, tracerCalls, traced,
                   tracerSocket, sentCount, raised, quiescent>>

\* One firing of the hook with its sends: trace_function registers a new
\* file (register_file sends its metadata), records a cross-file call
\* (track_cross_file_call sends it), builds the event and sends it with
\* send_event (COMPLETE_GUIDE.md:205-250).  The argument of the operation is
\* 1 when the connection was already broken.
HookFiring(filename) ==
    /\ Input
    /\ ~raised
    /\ Len(traced) < MaxTraced
    /\ LET crossing == lastFile # "" /\ lastFile # filename
           afterFile == IF filename \notin tracerFiles
                        THEN send_message(ProbeState) ELSE ProbeState
           afterCall == IF crossing THEN send_message(afterFile) ELSE afterFile
           afterSend == send_event(afterCall)
       IN /\ tracerFiles' = tracerFiles \cup {filename}
          /\ tracerCalls' = IF crossing /\ ~afterFile.raised
                            THEN Append(tracerCalls, CallInfo(lastFile, filename))
                            ELSE tracerCalls
          /\ traced' = IF afterCall.raised
                       THEN traced
                       ELSE Append(traced, [event_id |-> Len(traced), file_path |-> filename])
          /\ lastFile' = IF afterSend.raised THEN lastFile ELSE HeldFileAfter(filename)
          /\ tracerSocket' = afterSend.socket
          /\ sentCount' = afterSend.sent
          /\ raised' = afterSend.raised
    /\ lastOp' = Op("hook", IF linkUp THEN 0 ELSE 1)
    /\ UNCHANGED <<storeVars, filters, wire, connBuf, eventBuffer, totalEvents,
                   parseErrors, nextId, panelOpen, toWebview, received, handled,
                   handledAll, hostVars, linkUp, quiescent>>

----------------------------------------------------------------------------
(* Filters: useTreeFilters.ts *)

\* The strings that occur in events and queries, as arrays of characters.
Chars(str) ==
    CASE str = "" -> <<>>
      [] str = "f" -> <<"f">>
      [] str = "g" -> <<"g">>
      [] str = "h" -> <<"h">>
      [] str = "k" -> <<"k">>
      [] str = "G" -> <<"G">>
      [] str = "Tracer" -> <<"T", "r", "a", "c", "e", "r">>
      [] str = "a.py" -> <<"a", ".", "p", "y">>
      [] str = "b.py" -> <<"b", ".", "p", "y">>
      [] str = "/lib/python3/os.py" ->
            <<"/", "l", "i", "b", "/", "p", "y", "t", "h", "o", "n", "3",
              "/", "o", "s", ".", "p", "y">>

\* String.prototype.toLowerCase, on the letters that occur
LowerChar(ch) == CASE ch = "G" -> "g" [] ch = "T" -> "t" [] OTHER -> ch
ToLowerCase(chars) == [k \in 1 .. Len(chars) |-> LowerChar(chars[k])]

\* String.prototype.includes
Includes(chars, part) ==
    \E i \in 0 .. Len(chars) - Len(part) : SubSeq(chars, i + 1, i + Len(part)) = part

\* "Hot path filter (show only frequently executed functions)": the count
\* below which a function is hidden
HotPathThreshold_Exclusive == 5 + 1
HotPathThreshold == 5

\* the path fragments that mark the standard library (useTreeFilters.ts:101-104)
StdlibMarkers ==
    {<<"/", "l", "i", "b", "/", "p", "y", "t", "h", "o", "n">>,
     <<"/", "s", "i", "t", "e", "-", "p", "a", "c", "k", "a", "g", "e", "s", "/">>,
     <<"\\", "l", "i", "b", "\\", "p", "y", "t", "h", "o", "n">>,
     <<"\\", "s", "i", "t", "e", "-", "p", "a", "c", "k", "a", "g", "e", "s", "\\">>}

\* shouldShowEvent (useTreeFilters.ts:74-125)
shouldShowEvent(flt, event, executionCount) ==
    LET query == ToLowerCase(Chars(flt.searchQuery))
        functionName == ToLowerCase(Chars(event.function_name))
        className == ToLowerCase(Chars(event.class_name))
        fileName == ToLowerCase(Chars(event.file_path))
    IN IF /\ flt.searchQuery # ""
          /\ ~Includes(functionName, query)
          /\ ~Includes(className, query)
          /\ ~Includes(fileName, query)
       THEN FALSE
       ELSE IF event.event_type \notin flt.eventTypes
       THEN FALSE
       ELSE IF /\ flt.hideStdlib
               /\ \E marker \in StdlibMarkers : Includes(Chars(event.file_path), marker)
       THEN FALSE
       ELSE IF flt.showOnlyHotPath /\ executionCount < HotPathThreshold
       THEN FALSE
       ELSE IF flt.selectedFiles # {} /\ event.file_path \notin flt.selectedFiles
       THEN FALSE
       ELSE TRUE

\* setSearchQuery (useTreeFilters.ts:28-30)
SetSearchQuery(query) ==
    /\ Input
    /\ filters' = [filters EXCEPT !.searchQuery = query]
    /\ lastOp' = Op("setSearchQuery", 0)
    /\ UNCHANGED <<storeVars, serverVars, quiescent>>

\* toggleHotPath (useTreeFilters.ts:32-34)
ToggleHotPath ==
    /\ Input
    /\ filters' = [filters EXCEPT !.showOnlyHotPath = ~@]
    /\ lastOp' = Op("toggleHotPath", 0)
    /\ UNCHANGED <<storeVars, serverVars, quiescent>>

\* toggleHideStdlib (useTreeFilters.ts:36-38)
ToggleHideStdlib ==
    /\ Input
    /\ filters' = [filters EXCEPT !.hideStdlib = ~@]
    /\ lastOp' = Op("toggleHideStdlib", 0)
    /\ UNCHANGED <<storeVars, serverVars, quiescent>>

\* toggleFile (useTreeFilters.ts:52-62)
ToggleFile(filePath) ==
    /\ Input
    /\ filters' = [filters EXCEPT !.selectedFiles =
                      IF filePath \in @ THEN @ \ {filePath} ELSE @ \cup {filePath}]
    /\ lastOp' = Op("toggleFile", 0)
    /\ UNCHANGED <<storeVars, serverVars, quiescent>>

\* toggleEventType (useTreeFilters.ts:40-50)
ToggleEventType(eventType) ==
    /\ Input
    /\ filters' = [filters EXCEPT !.eventTypes =
                      IF eventType \in @ THEN @ \ {eventType} ELSE @ \cup {eventType}]
    /\ lastOp' = Op("toggleEventType", 0)
    /\ UNCHANGED <<storeVars, serverVars, quiescent>>

----------------------------------------------------------------------------
(* Derived view: the call tree (FunctionCallTree, part_007:59-116) *)

\* functionCounts: calls per `${file_path}:${function_name}`, over the whole log
ExecutionCount_UpToCursor(evs, event) ==
    Cardinality({i \in 1 .. Min(currentEventIndex + 1, Len(evs)) :
        /\ evs[i].event_type \in CallTypes
        /\ evs[i].file_path = event.file_path
        /\ evs[i].function_name = event.function_name})
ExecutionCount(evs, event) ==
    Cardinality({i \in 1 .. Len(evs) :
        /\ evs[i].event_type \in CallTypes
        /\ evs[i].file_path = event.file_path
        /\ evs[i].function_name = event.function_name})

\* First pass: the call events that pass the filters get a node.  A node is
\* named by the position of its event in the log.
VisibleCalls_IgnoresFileSet(evs, flt) ==
    {i \in 1 .. Len(evs) :
        /\ evs[i].event_type \in CallTypes
        /\ shouldShowEvent([flt EXCEPT !.selectedFiles = {}], evs[i],
                           ExecutionCount(evs, evs[i]))}
VisibleCalls_StdlibInverted(evs, flt) ==
    {i \in 1 .. Len(evs) :
        /\ evs[i].event_type \in CallTypes
        /\ shouldShowEvent([flt EXCEPT !.hideStdlib = ~@], evs[i],
                           ExecutionCount(evs, evs[i]))}
VisibleCalls_FunctionCallsOnly(evs, flt) ==
    {i \in 1 .. Len(evs) :
        /\ evs[i].event_type = "function_call"
        /\ shouldShowEvent(flt, evs[i], ExecutionCount(evs, evs[i]))}
VisibleCalls_UpToCursor(evs, flt) ==
    {i \in 1 .. Min(Len(evs), currentEventIndex + 1) :
        /\ evs[i].event_type \in CallTypes
        /\ shouldShowEvent(flt, evs[i], ExecutionCount(evs, evs[i]))}
VisibleCalls(evs, flt) ==
    {i \in 1 .. Len(evs) :
        /\ evs[i].event_type \in CallTypes
        /\ shouldShowEvent(flt, evs[i], ExecutionCount(evs, evs[i]))}

\* nodeMap, keyed by event_id: a later node with the same id replaces the
\* earlier one and keeps its place in the iteration order.
NodeKeys(evs, flt) == {evs[i].event_id : i \in VisibleCalls(evs, flt)}
NodeOf(evs, flt, id) ==
    CHOOSE i \in VisibleCalls(evs, flt) :
        /\ evs[i].event_id = id
        /\ \A j \in VisibleCalls(evs, flt) : evs[j].event_id = id => j <= i
KeyPlace(evs, flt, id) ==
    CHOOSE i \in VisibleCalls(evs, flt) :
        /\ evs[i].event_id = id
        /\ \A j \in VisibleCalls(evs, flt) : evs[j].event_id = id => i <= j

\* nodeMap.forEach: the nodes in the order of their keys
NodesInOrder(evs, flt) ==
    LET places == SortedSeq({KeyPlace(evs, flt, id) : id \in NodeKeys(evs, flt)})
    IN [k \in 1 .. Len(places) |-> NodeOf(evs, flt, evs[places[k]].event_id)]

\* Second pass: a node whose parent_event_id names a node is pushed to that
\* node's children
HasParentNode(evs, flt, n) ==
    /\ evs[n].parent_event_id # Null
    /\ evs[n].parent_event_id \in NodeKeys(evs, flt)

TreeChildren(evs, flt, p) ==
    SelectSeq(NodesInOrder(evs, flt),
              LAMBDA n : /\ HasParentNode(evs, flt, n)
                         /\ NodeOf(evs, flt, evs[n].parent_event_id) = p)

\* ... and every other node is pushed to rootNodes: "No parent found or
\* parent filtered out, treat as root", "No parent, this is a root node"
TreeRoots_LoggedParentNotRoot(evs, flt) ==
    SelectSeq(NodesInOrder(evs, flt),
              LAMBDA n : \/ evs[n].parent_event_id = Null
                         \/ \A i \in 1 .. Len(evs) : evs[i].event_id # evs[n].parent_event_id)
TreeRoots_ParentlessOnly(evs, flt) ==
    SelectSeq(NodesInOrder(evs, flt), LAMBDA n : evs[n].parent_event_id = Null)
TreeRoots(evs, flt) ==
    SelectSeq(NodesInOrder(evs, flt), LAMBDA n : ~HasParentNode(evs, flt, n))

SeqToSet(seq) == {seq[k] : k \in 1 .. Len(seq)}

\* the edges parent -> child of the tree
TreeEdges(evs, flt) ==
    {<<p, n>> \in SeqToSet(NodesInOrder(evs, flt)) \X SeqToSet(NodesInOrder(evs, flt)) :
        n \in SeqToSet(TreeChildren(evs, flt, p))}

\* The next event of a tracer run as the tree reads it: a call or a return,
\* whose parent is null, an earlier event, or an event the log never got
\* (id 0).
TreeParents(evs) == {Null, 0} \cup {evs[i].event_id : i \in 1 .. Len(evs)}
TreeEvent(evs, t, parent) ==
    [TracerEvent(evs, t, 0) EXCEPT
        !.parent_event_id = parent,
        !.function_name = IF t = "method_call" THEN "g" ELSE "f",
        !.class_name = IF t = "method_call" THEN "Tracer" ELSE ""]

----------------------------------------------------------------------------
(* The tracer's byte stream *)

Newline == "\n"
Space == " "
Digits == <<"1", "2", "3", "4", "5">>
Alphabet == {"{", "}", "F", "C", Space, Newline} \cup {Digits[k] : k \in 1 .. Len(Digits)}

\* UTF-8 of the characters the tracer emits: json.dumps escapes everything
\* outside ASCII, so each character is one byte.
ByteOf(ch) ==
    CASE ch = "{" -> 123
      [] ch = "}" -> 125
      [] ch = "F" -> 70
      [] ch = "C" -> 67
      [] ch = Space -> 32
      [] ch = Newline -> 10
      [] OTHER -> 48 + (CHOOSE k \in 1 .. Len(Digits) : Digits[k] = ch)

\* (json_str + '\n').encode('utf-8')
Utf8Encode(text) == [k \in 1 .. Len(text) |-> ByteOf(text[k])]

\* data.toString()
Utf8Decode(data) ==
    [k \in 1 .. Len(data) |-> CHOOSE ch \in Alphabet : ByteOf(ch) = data[k]]

\* The JSON text of the tracer's event number id, written {id} for short.
EventText(id) == <<"{", Digits[id], "}">>

\* the event that text stands for
ParsedEvent(id) ==
    [event_id |-> id,
     event_type |-> "function_call",
     file_path |-> "a.py",
     line_number |-> 1,
     function_name |-> "f",
     class_name |-> "",
     call_stack_depth |-> 0,
     parent_event_id |-> Null]

\* The JSON text of register_file's message for a.py, written {F} for
\* short, and of track_cross_file_call's message, written {C}.
MetadataText == <<"{", "F", "}">>
CallText == <<"{", "C", "}">>

\* a property the object does not have reads as undefined
Undefined == "undefined"

\* the objects those texts stand for; the cross-file call has no file_path
ParsedMetadata ==
    [type |-> "file_metadata",
     file_path |-> "a.py",
     relative_path |-> "a.py",
     code |-> "x = 1\ny = 2",
     lines |-> <<"x = 1", "y = 2">>,
     total_lines |-> 2,
     timestamp |-> 1]

ParsedCall ==
    [type |-> "cross_file_call",
     from_file |-> "a.py",
     to_file |-> "b.py",
     from_event_id |-> 0,
     to_event_id |-> 1,
     timestamp |-> 1,
     file_path |-> Undefined]

\* String.prototype.trim
RECURSIVE TrimLeft(_)
TrimLeft(text) ==
    IF text # <<>> /\ Head(text) \in {Space, Newline} THEN TrimLeft(Tail(text)) ELSE text

RECURSIVE TrimRight(_)
TrimRight(text) ==
    IF text # <<>> /\ text[Len(text)] \in {Space, Newline}
    THEN TrimRight(SubSeq(text, 1, Len(text) - 1))
    ELSE text

Trim(text) == TrimRight(TrimLeft(text))

\* JSON.parse: white space around the value is skipped; anything but one
\* complete value is a SyntaxError.
JSONParse(message) ==
    LET text == Trim(message)
    IN IF /\ Len(text) = 3
          /\ text[1] = "{"
          /\ text[3] = "}"
          /\ \E k \in 1 .. Len(Digits) : Digits[k] = text[2]
       THEN [ok |-> TRUE,
             event |-> ParsedEvent(CHOOSE k \in 1 .. Len(Digits) : Digits[k] = text[2])]
       ELSE IF text = MetadataText THEN [ok |-> TRUE, event |-> ParsedMetadata]
       ELSE IF text = CallText THEN [ok |-> TRUE, event |-> ParsedCall]
       ELSE [ok |-> FALSE]

----------------------------------------------------------------------------
(* TraceServer *)

\* buffer.indexOf('\n'), 0-based, -1 when absent
IndexOf(buffer, ch) ==
    IF \E i \in 1 .. Len(buffer) : buffer[i] = ch
    THEN (CHOOSE i \in 1 .. Len(buffer) :
            buffer[i] = ch /\ \A j \in 1 .. i - 1 : buffer[j] # ch) - 1
    ELSE -1

\* buffer.substring(from, to), 0-based, to exclusive
Substring(buffer, from, to) == SubSeq(buffer, from + 1, to)

\* The server's state as handleTraceEvent reads and writes it.
ServerState ==
    [eventBuffer |-> eventBuffer, totalEvents |-> totalEvents,
     parseErrors |-> parseErrors, toWebview |-> toWebview, messages |-> <<>>]

\* handleTraceEvent (TraceServer.ts:156-183): parse, count, buffer, forward to
\* the panel if one is open; a SyntaxError is caught and logged.  The status
\* bar text and the warning shown for an 'exception_raised' event change
\* nothing that is modelled.
handleTraceEvent_CountBeforeParse(st, message) ==
    LET parsed == JSONParse(message)
        counted == [st EXCEPT !.totalEvents = @ + 1]
    IN IF parsed.ok
       THEN [counted EXCEPT
               !.eventBuffer = Append(@, parsed.event),
               !.toWebview = IF panelOpen
                             THEN Append(@, [type |-> "traceData", data |-> parsed.event])
                             ELSE @]
       ELSE [counted EXCEPT !.parseErrors = @ + 1]

handleTraceEvent(st, message) ==
    LET parsed == JSONParse(message)
    IN IF parsed.ok
       THEN [st EXCEPT
               !.totalEvents = @ + 1,
               !.eventBuffer = Append(@, parsed.event),
               !.toWebview = IF panelOpen
                             THEN Append(@, [type |-> "traceData", data |-> parsed.event])
                             ELSE @]
       ELSE [st EXCEPT !.parseErrors = @ + 1]

\* buffer += data.toString()  (TraceServer.ts:125)
AppendChunk_Overwrite(buffer, data) == Utf8Decode(data)
AppendChunk(buffer, data) == buffer \o Utf8Decode(data)

\* "Process complete messages": the while loop of the 'data' handler
\* (TraceServer.ts:128-136).  st.messages collects what was handed to
\* handleTraceEvent.
RECURSIVE ProcessBuffer(_, _)
ProcessBuffer(buffer, st) ==
    LET newlineIndex == IndexOf(buffer, Newline)
    IN IF newlineIndex = -1
       THEN [buffer |-> buffer, st |-> st]
       ELSE LET message == Substring(buffer, 0, newlineIndex)
                rest == Substring(buffer, newlineIndex + 1, Len(buffer))
            IN IF Trim(message) # <<>>
               THEN ProcessBuffer(rest,
                      [handleTraceEvent(st, message) EXCEPT
                          !.messages = Append(@, message)])
               ELSE ProcessBuffer(rest, st)

\* number of messages the tracers have written so far
NewlineCount(bytes) == Cardinality({i \in 1 .. Len(bytes) : bytes[i] = ByteOf(Newline)})
Written(c) == NewlineCount(Utf8Encode(received[c])) + NewlineCount(wire[c])
WrittenTotal == Written(1) + Written(2)

\* A tracer writes a line.
TracerWrite(c, text) ==
    /\ Input
    /\ WrittenTotal < MaxWrites
    /\ wire' = [wire EXCEPT ![c] = @ \o Utf8Encode(text \o <<Newline>>)]
    /\ lastOp' = Op("write", c)

\* send_event: the next event of connection c's tracer
TracerSendEvent(c) ==
    /\ TracerWrite(c, EventText(nextId[c]))
    /\ nextId' = [nextId EXCEPT ![c] = @ + 1]
    /\ UNCHANGED <<storeVars, filters, tracerVars, connBuf, eventBuffer, totalEvents, parseErrors,
                   panelOpen, toWebview, received, handled, handledAll, hostVars, quiescent>>

\* a line that is not JSON (json.dumps writes NaN and Infinity bare, a tracer
\* dies in mid-line): here an object that is never closed
TracerSendMalformed(c) ==
    /\ TracerWrite(c, <<"{", Digits[nextId[c]]>>)
    /\ UNCHANGED <<storeVars, filters, tracerVars, connBuf, eventBuffer, totalEvents, parseErrors,
                   nextId, panelOpen, toWebview, received, handled, handledAll, hostVars, quiescent>>

\* register_file's message (COMPLETE_GUIDE.md:326-336)
TracerSendFileMetadata(c) ==
    /\ TracerWrite(c, MetadataText)
    /\ UNCHANGED <<storeVars, filters, tracerVars, connBuf, eventBuffer, totalEvents, parseErrors,
                   nextId, panelOpen, toWebview, received, handled, handledAll, hostVars, quiescent>>

\* track_cross_file_call's message (COMPLETE_GUIDE.md:346-356)
TracerSendCrossFileCall(c) ==
    /\ TracerWrite(c, CallText)
    /\ UNCHANGED <<storeVars, filters, tracerVars, connBuf, eventBuffer, totalEvents, parseErrors,
                   nextId, panelOpen, toWebview, received, handled, handledAll, hostVars, quiescent>>

\* an empty line
TracerSendBlank(c) ==
    /\ TracerWrite(c, <<Space>>)
    /\ UNCHANGED <<storeVars, filters, tracerVars, connBuf, eventBuffer, totalEvents, parseErrors,
                   nextId, panelOpen, toWebview, received, handled, handledAll, hostVars, quiescent>>

\* socket.on('data'): the transport delivers the next n bytes of connection
\* c as one chunk (TraceServer.ts:124-137)
OnData(c, n) ==
    /\ n \in 1 .. Len(wire[c])
    /\ LET data == SubSeq(wire[c], 1, n)
           r == ProcessBuffer(AppendChunk(connBuf[c], data), ServerState)
       IN /\ wire' = [wire EXCEPT ![c] = SubSeq(@, n + 1, Len(@))]
          /\ connBuf' = [connBuf EXCEPT ![c] = r.buffer]
          /\ eventBuffer' = r.st.eventBuffer
          /\ totalEvents' = r.st.totalEvents
          /\ parseErrors' = r.st.parseErrors
          /\ toWebview' = r.st.toWebview
          /\ received' = [received EXCEPT ![c] = @ \o Utf8Decode(data)]
          /\ handled' = [handled EXCEPT ![c] = @ \o r.st.messages]
          /\ handledAll' = handledAll \o r.st.messages
    /\ lastOp' = Op("data", Len(connBuf[c]))
    /\ UNCHANGED <<storeVars, filters, tracerVars, nextId, panelOpen, hostVars, quiescent>>

\* the servers of this TraceServer that are bound to the port and listening
Listening == {s \in 1 .. Len(netServers) : netServers[s] = "listening"}

UnchangedButLifecycle ==
    UNCHANGED <<storeVars, filters, tracerVars, wire, connBuf, eventBuffer, totalEvents,
                parseErrors, nextId, panelOpen, toWebview, received, handled, handledAll,
                panels, quiescent>>

\* start() (TraceServer.ts:44-74), up to the call of listen: when isRunning
\* is false a net.Server is created, stored in this.server and told to listen;
\* binding completes later.
StartServer ==
    /\ Len(netServers) < MaxServers
    /\ netServers' = Append(netServers, "binding")
    /\ server' = Len(netServers) + 1
    /\ UNCHANGED isRunning

\* stop() (TraceServer.ts:76-101) when isRunning: this.server.close(),
\* this.server = null, isRunning = false.  close() stops a listening server;
\* on a server whose listen has not yet got its handle (the host name is still
\* being looked up) it only reports that the server is not running, and the
\* pending listen goes on.
StopServer ==
    /\ netServers' \in
          IF server = 0 THEN {netServers}
          ELSE IF netServers[server] = "listening"
               THEN {[netServers EXCEPT ![server] = "closed"]}
          ELSE IF netServers[server] = "binding"
               THEN {netServers, [netServers EXCEPT ![server] = "closed"]}
          ELSE {netServers}
    /\ server' = 0
    /\ isRunning' = FALSE

Start ==
    /\ Input
    /\ IF isRunning THEN UNCHANGED hostVars ELSE StartServer
    /\ lastOp' = Op("start", IF isRunning THEN 0 ELSE 1)
    /\ UnchangedButLifecycle

Stop ==
    /\ Input
    /\ IF ~isRunning THEN UNCHANGED hostVars ELSE StopServer
    /\ lastOp' = Op("stop", IF isRunning THEN 1 ELSE 0)
    /\ UnchangedButLifecycle

\* toggle() (TraceServer.ts:103-109)
Toggle ==
    /\ Input
    /\ IF isRunning THEN StopServer ELSE StartServer
    /\ lastOp' = Op("toggle", IF isRunning THEN 1 ELSE 0)
    /\ UnchangedButLifecycle

\* The listen of server s completes.  With the port free the server is
\* listening and the callback of listen sets isRunning (TraceServer.ts:64-72);
\* with the port taken the 'error' handler reports EADDRINUSE and changes
\* nothing (TraceServer.ts:53-62).
ListenDone(s) ==
    /\ s \in 1 .. Len(netServers)
    /\ netServers[s] = "binding"
    /\ IF Listening = {}
       THEN /\ netServers' = [netServers EXCEPT ![s] = "listening"]
            /\ isRunning' = TRUE
       ELSE /\ netServers' = [netServers EXCEPT ![s] = "failed"]
            /\ UNCHANGED isRunning
    /\ UNCHANGED server
    /\ lastOp' = Op("listen", s)
    /\ UnchangedButLifecycle

\* clearEventBuffer (TraceServer.ts:200-204); the operation records how many
\* events were in the buffer
ClearEventBuffer ==
    /\ Input
    /\ eventBuffer' = <<>>
    /\ totalEvents' = 0
    /\ lastOp' = Op("clearEventBuffer", Len(eventBuffer))
    /\ UNCHANGED <<storeVars, filters, tracerVars, wire, connBuf, parseErrors, nextId,
                   panelOpen, toWebview, received, handled, handledAll, hostVars,
                   quiescent>>

\* The webview of a new panel loads the application: its store is the store as
\* constructed (useStore.ts:228-238) and no message is waiting for it.
LoadWebview ==
    /\ events' = <<>>
    /\ isPaused' = FALSE
    /\ projectFiles' = <<>>
    /\ crossFileCalls' = <<>>
    /\ currentEventIndex' = -1
    /\ isPlaying' = FALSE
    /\ playbackSpeed' = "1"
    /\ toWebview' = <<>>

\* vscode.window.createWebviewPanel and new FlowVisualizerPanel (part_001:97-111)
CreatePanel ==
    /\ Len(panels) < MaxPanels
    /\ panels' = Append(panels, "live")
    /\ panelOpen' = TRUE
    /\ LoadWebview
    /\ lastOp' = Op("createOrShow", 1)

\* currentPanel._panel.reveal(column); return  (part_001:93-96)
RevealPanel ==
    /\ lastOp' = Op("createOrShow", 0)
    /\ UNCHANGED <<storeVars, panelOpen, toWebview, panels>>

\* FlowVisualizerPanel.createOrShow (part_001:88-112)
CreateOrShow_AlwaysCreate ==
    /\ Input
    /\ CreatePanel
    /\ UNCHANGED <<filters, tracerVars, wire, connBuf, eventBuffer, totalEvents,
                   parseErrors, nextId, received, handled, handledAll,
                   isRunning, server, netServers, quiescent>>

CreateOrShow ==
    /\ Input
    /\ IF panelOpen THEN RevealPanel ELSE CreatePanel
    /\ UNCHANGED <<filters, tracerVars, wire, connBuf, eventBuffer, totalEvents,
                   parseErrors, nextId, received, handled, handledAll,
                   isRunning, server, netServers, quiescent>>

\* The user closes panel p: onDidDispose calls dispose (part_001:120, 224-235),
\* which clears currentPanel and disposes the webview panel; the messages
\* posted to the current panel's webview go with it.
Dispose(p) ==
    /\ Input
    /\ p \in 1 .. Len(panels)
    /\ panels[p] = "live"
    /\ panelOpen' = FALSE
    /\ panels' = [panels EXCEPT ![p] = "disposed"]
    /\ toWebview' = IF p = Len(panels) THEN <<>> ELSE toWebview
    /\ lastOp' = Op("dispose", p)
    /\ UNCHANGED <<storeVars, filters, tracerVars, wire, connBuf, eventBuffer, totalEvents,
                   parseErrors, nextId, received, handled, handledAll,
                   isRunning, server, netServers, quiescent>>

\* The webview takes the next posted message (useVSCode -> App.handleMessage).
WebviewDeliver ==
    /\ toWebview # <<>>
    /\ HandleMessage(Head(toWebview))
    /\ toWebview' = Tail(toWebview)
    /\ lastOp' = Op("deliver", 0)
    /\ UNCHANGED <<isPaused, currentEventIndex, isPlaying, playbackSpeed,
                   filters, wire, connBuf, eventBuffer, totalEvents, parseErrors, nextId,
                   panelOpen, received, handled, handledAll, tracerVars, hostVars, quiescent>>

----------------------------------------------------------------------------
(* Initial state *)

Conns == {1, 2}

DefaultFilters ==
    [searchQuery |-> "",
     showOnlyHotPath |-> FALSE,
     hideStdlib |-> FALSE,
     eventTypes |-> EventTypes,
     selectedFiles |-> {}]

\* clearAllFilters (useTreeFilters.ts:64-72)
ClearAllFilters ==
    /\ Input
    /\ filters' = DefaultFilters
    /\ lastOp' = Op("clearAllFilters", 0)
    /\ UNCHANGED <<storeVars, serverVars, quiescent>>

\* everything but the log, as constructed
InitRest ==
    /\ isPaused = FALSE
    /\ projectFiles = <<>>
    /\ crossFileCalls = <<>>
    /\ currentEventIndex = -1
    /\ isPlaying = FALSE
    /\ playbackSpeed = "1"
    /\ filters = DefaultFilters
    /\ wire = [c \in Conns |-> <<>>]
    /\ connBuf = [c \in Conns |-> <<>>]
    /\ eventBuffer = <<>>
    /\ totalEvents = 0
    /\ parseErrors = 0
    /\ nextId = [c \in Conns |-> 1]
    /\ panelOpen = FALSE
    /\ toWebview = <<>>
    /\ received = [c \in Conns |-> <<>>]
    /\ handled = [c \in Conns |-> <<>>]
    /\ handledAll = <<>>
    /\ panels = <<>>
    /\ isRunning = FALSE
    /\ server = 0
    /\ netServers = <<>>
    /\ lastFile = ""
    /\ tracerFiles = {}
    /\ tracerCalls = <<>>
    /\ traced = <<>>
    /\ tracerSocket = "none"
    /\ linkUp = TRUE
    /\ sentCount = 0
    /\ raised = FALSE
    /\ lastOp = Op("init", 0)
    /\ quiescent = FALSE

Init ==
    /\ events = <<>>
    /\ InitRest

----------------------------------------------------------------------------
(* The store under cursor and playback operations *)

StoreEvent == TracerEvent(events, "function_call", 0)

StoreNext ==
    \/ ReceiveTraceData(StoreEvent)
    \/ \E i \in -3 .. MaxSeek : Seek(i)
    \/ StepForward
    \/ StepBackward
    \/ TogglePlayback
    \/ \E speed \in PlaybackSpeeds : SetPlaybackSpeed(speed)
    \/ TogglePause
    \/ GoToStart
    \/ GoToEnd
    \/ ClearEvents
    \/ ClearProjectData
    \/ PlaybackTick
    \/ TimelineAutoStop
    \/ Quiesce

SpecStore == Init /\ [][StoreNext]_vars

\* The Timeline's timer and effects run whenever they are due.
SpecPlayback ==
    Init /\ [][StoreNext]_vars /\ WF_vars(PlaybackTick) /\ WF_vars(TimelineAutoStop)

----------------------------------------------------------------------------
(* The derived views over logs of one tracer run *)

StackNext ==
    \/ \E t \in StackEventTypes, d \in 0 .. MaxDepth :
          ReceiveTraceData(TracerEvent(events, t, d))
    \/ \E i \in -1 .. MaxEvents - 1 : Seek(i)

SpecStack == Init /\ [][StackNext]_vars

----------------------------------------------------------------------------
(* Tracers, TraceServer and the webview's log *)

ServerNext ==
    \/ \E c \in Conns : TracerSendEvent(c)
    \/ \E c \in Conns : TracerSendMalformed(c)
    \/ \E c \in Conns : TracerSendBlank(c)
    \/ \E c \in Conns : \E n \in 1 .. Len(wire[c]) : OnData(c, n)
    \/ CreateOrShow
    \/ WebviewDeliver

SpecServer == Init /\ [][ServerNext]_vars

----------------------------------------------------------------------------
(* The call tree under the event-type filter *)

TreeEventTypes == {"function_call", "method_call", "function_return"}

TreeNext ==
    \/ \E t \in TreeEventTypes, parent \in TreeParents(events) :
          /\ Len(events) < MaxTreeEvents
          /\ ReceiveTraceData(TreeEvent(events, t, parent))
    \/ \E t \in CallTypes : ToggleEventType(t)

SpecTree == Init /\ [][TreeNext]_vars

----------------------------------------------------------------------------
(* The filters over logs of calls in several files *)

Queries == {"", "G", "Tracer", "a.py"}
FilterFiles == {"a.py", "b.py"}
FilterEventTypes == {"function_call", "method_call", "line"}

\* The next event of a run that calls f in a.py, the method Tracer.g in
\* b.py and h in the standard library, and executes lines of a.py.
FilterEvent(evs, kind) ==
    LET call == TracerEvent(evs, "function_call", 0)
    IN CASE kind = 1 -> call
         [] kind = 2 -> [call EXCEPT !.event_type = "method_call", !.function_name = "g",
                                     !.class_name = "Tracer", !.file_path = "b.py"]
         [] kind = 3 -> [call EXCEPT !.function_name = "h",
                                     !.file_path = "/lib/python3/os.py"]
         [] OTHER -> [call EXCEPT !.event_type = "line"]

\* a log in which f has just become hot
HotLog ==
    [k \in 1 .. HotPathThreshold |->
        [TracerEvent(<<>>, "function_call", 0) EXCEPT !.event_id = k]]

FilterInit ==
    /\ events \in {<<>>, HotLog}
    /\ InitRest

\* the events received since the initial log
AddedEvents ==
    IF Len(events) >= Len(HotLog) /\ SubSeq(events, 1, Len(HotLog)) = HotLog
    THEN Len(events) - Len(HotLog)
    ELSE Len(events)

FilterNext ==
    \/ \E kind \in 1 .. 4 :
          /\ AddedEvents < MaxFilterEvents
          /\ AddTraceData(FilterEvent(events, kind))
    \/ \E query \in Queries : SetSearchQuery(query)
    \/ ToggleHotPath
    \/ ToggleHideStdlib
    \/ \E t \in FilterEventTypes : ToggleEventType(t)
    \/ \E f \in FilterFiles : ToggleFile(f)
    \/ ClearAllFilters

SpecFilter == FilterInit /\ [][FilterNext]_vars

----------------------------------------------------------------------------
(* The hot-path filter and the cursor *)

HotNext ==
    \/ \E kind \in 1 .. 2 :
          /\ Len(events) < MaxHotEvents
          /\ AddTraceData([FilterEvent(events, 1) EXCEPT
                              !.function_name = IF kind = 1 THEN "f" ELSE "g"])
    \/ ToggleHotPath
    \/ \E i \in -1 .. MaxHotEvents - 1 : Seek(i)

SpecHotPath == Init /\ [][HotNext]_vars

----------------------------------------------------------------------------
(* The file registry, the heat map and the coverage *)

Files == {"a.py", "b.py"}
Lines == {1, 2}

\* an event on a line of a file
FileEvent(evs, file, line) ==
    [TracerEvent(evs, "line", 0) EXCEPT !.file_path = file, !.line_number = line]

\* register_file's message (COMPLETE_GUIDE.md:326-336): the file as read at
\* the time; version 2 is the file after an edit that added a line
FileMetadataOf(file, version) ==
    LET lines == IF version = 1 THEN <<"x = 1", "y = 2">>
                 ELSE <<"x = 1", "y = 2", "z = 3">>
    IN [type |-> "file_metadata",
        file_path |-> file,
        relative_path |-> file,
        code |-> IF version = 1 THEN "x = 1\ny = 2" ELSE "x = 1\ny = 2\nz = 3",
        lines |-> lines,
        total_lines |-> Len(lines),
        timestamp |-> version]

FilesNext ==
    \/ \E file \in Files, line \in Lines :
          /\ Len(events) < MaxFileEvents
          /\ AddTraceData(FileEvent(events, file, line))
    \/ \E file \in Files, version \in 1 .. 2 :
          ReceiveFileMetadata(FileMetadataOf(file, version))
    \/ \E i \in -1 .. MaxFileEvents - 1 : Seek(i)

SpecFiles == Init /\ [][FilesNext]_vars

----------------------------------------------------------------------------
(* Cross-file calls: the tracer's detection and the store's record *)

TransitionsNext ==
    \/ \E file \in Files : TraceFunction(file)
    \/ \E k \in 1 .. Len(tracerCalls) : ReceiveCrossFileCall(tracerCalls[k])

SpecTransitions == Init /\ [][TransitionsNext]_vars

----------------------------------------------------------------------------
(* The derived views together: log, registry, cursor and filters *)

ViewEventTypes == {"function_call", "line"}

\* a call on line 1 of a file, or the execution of its line 2; the first
\* call is at depth 0, what follows it is inside that call
ViewEvent(evs, file, t) ==
    LET d == IF LastCallAt(evs, Len(evs), 0) = Null THEN 0 ELSE 1
    IN [TracerEvent(evs, t, d) EXCEPT !.file_path = file,
                                      !.line_number = IF t = "line" THEN 2 ELSE 1]

ViewsNext ==
    \/ \E file \in Files, t \in ViewEventTypes :
          /\ Len(events) < MaxViewEvents
          /\ \A path \in DOMAIN projectFiles :
                Len(projectFiles[path].events) < MaxViewEvents
          /\ AddTraceData(ViewEvent(events, file, t))
    \/ \E file \in Files : ReceiveFileMetadata(FileMetadataOf(file, 1))
    \/ \E i \in -1 .. MaxViewEvents - 1 : Seek(i)
    \/ ClearEvents
    \/ ToggleEventType("function_call")

SpecViews == Init /\ [][ViewsNext]_vars

----------------------------------------------------------------------------
(* The call tree while the rest of the store changes *)

RebuildNext ==
    \/ \E t \in ViewEventTypes :
          /\ Len(events) < MaxRebuildEvents
          /\ AddTraceData(ViewEvent(events, "a.py", t))
    \/ \E i \in -1 .. MaxRebuildEvents - 1 : Seek(i)
    \/ ToggleEventType("function_call")
    \/ TogglePause

SpecRebuild == Init /\ [][RebuildNext]_vars

----------------------------------------------------------------------------
(* The three kinds of message, from the tracer to the webview's store *)

RouterNext ==
    \/ \E c \in Conns : TracerSendEvent(c)
    \/ \E c \in Conns : TracerSendFileMetadata(c)
    \/ \E c \in Conns : TracerSendCrossFileCall(c)
    \/ \E c \in Conns : \E n \in 1 .. Len(wire[c]) : OnData(c, n)
    \/ CreateOrShow
    \/ WebviewDeliver

SpecRouter == Init /\ [][RouterNext]_vars

----------------------------------------------------------------------------
(* Export: ExportPanel (Toolbar.tsx:86-187) *)

\* JSON.stringify of a Map: a Map has no own enumerable properties, so the
\* text is {} whatever the Map holds
StringifyMap(map) == [key \in {} |-> map[key]]

\* Object.keys of a Map: none
ObjectKeys(map) == {}

\* exportData of exportToJSON and copyToClipboard as written to the file or
\* the clipboard (Toolbar.tsx:93-105, 167-179); the timestamp is the clock's
ExportData ==
    [version |-> "1.0.0",
     metadata |-> [totalEvents |-> Len(events),
                   currentEventIndex |-> currentEventIndex,
                   files |-> Cardinality(ObjectKeys(projectFiles))],
     events |-> events,
     projectFiles |-> StringifyMap(projectFiles)]

\* no file is written
NoSnapshot == [type |-> "none"]

\* exportData of exportCurrentView as written to the file (Toolbar.tsx:128-143).
\* events[currentEventIndex] is undefined when the index is outside the
\* array, and JSON.stringify leaves out a property whose value is undefined.
CurrentViewData ==
    IF currentEventIndex < 0 THEN NoSnapshot
    ELSE LET exportData == [version |-> "1.0.0",
                            type |-> "current-view",
                            eventIndex |-> currentEventIndex,
                            totalEvents |-> Len(events)]
         IN IF currentEventIndex < Len(events)
            THEN ("currentEvent" :> events[currentEventIndex + 1]) @@ exportData
            ELSE exportData

\* "Export Full Trace", enabled while the log is not empty
ExportToJSON ==
    /\ Input
    /\ Len(events) # 0
    /\ lastOp' = Op("exportToJSON", 0)
    /\ UNCHANGED <<storeVars, filters, serverVars, quiescent>>

\* "Copy to Clipboard", enabled while the log is not empty
CopyToClipboard ==
    /\ Input
    /\ Len(events) # 0
    /\ lastOp' = Op("copyToClipboard", 0)
    /\ UNCHANGED <<storeVars, filters, serverVars, quiescent>>

\* "Export Snapshot", enabled while the cursor is not negative
ExportCurrentView ==
    /\ Input
    /\ ~(currentEventIndex < 0)
    /\ lastOp' = Op("exportCurrentView", 0)
    /\ UNCHANGED <<storeVars, filters, serverVars, quiescent>>

\* a cross-file call as the tracer reports it
CallOf(from_file, to_file) ==
    [type |-> "cross_file_call", from_file |-> from_file, to_file |-> to_file,
     from_event_id |-> 0, to_event_id |-> 1]

ExportNext ==
    \/ \E file \in Files :
          /\ Len(events) < MaxExportEvents
          /\ \A path \in DOMAIN projectFiles :
                Len(projectFiles[path].events) < MaxExportEvents
          /\ AddTraceData(FileEvent(events, file, 1))
    \/ ReceiveFileMetadata(FileMetadataOf("a.py", 1))
    \/ ReceiveCrossFileCall(CallOf("a.py", "b.py"))
    \/ \E i \in -1 .. MaxExportEvents - 1 : Seek(i)
    \/ ClearEvents
    \/ ExportToJSON
    \/ CopyToClipboard
    \/ ExportCurrentView

SpecExport == Init /\ [][ExportNext]_vars

----------------------------------------------------------------------------
(* Claims about the call stack and the cursor *)

ValidCursor == currentEventIndex >= 0 /\ currentEventIndex < Len(events)
CurrentEvent == events[currentEventIndex + 1]

\* The log [call f@0, call g@1 (parent f), return g@1, return f@0]
C1Log ==
    LET e1 == TracerEvent(<<>>, "function_call", 0)
        e2 == TracerEvent(<<e1>>, "function_call", 1)
        e3 == TracerEvent(<<e1, e2>>, "function_return", 1)
        e4 == TracerEvent(<<e1, e2, e3>>, "function_return", 0)
    IN <<e1, e2, e3, e4>>

C1Expected(i) == IF i = 1 THEN <<"f", "g">> ELSE IF i = 2 THEN <<"f">> ELSE <<>>

\* C1: on the log [call f@0, call g@1, return g@1, return f@0] the derived
\* call stack is [f, g] at cursor 1, [f] at cursor 2 and empty at cursor 3.
C1_ScenarioStack ==
    (events = C1Log /\ currentEventIndex \in 1 .. 3) =>
        /\ FrameNames(CallStack(events, currentEventIndex)) = C1Expected(currentEventIndex)
        /\ FrameNames(InspectorCallStack(events, currentEventIndex))
             = C1Expected(currentEventIndex)

\* depths 0..d at which an event of one of the types occurs at or before the cursor
OpenedDepths(types, d) ==
    {k \in 0 .. d : \E j \in 1 .. currentEventIndex + 1 :
        events[j].event_type \in types /\ events[j].call_stack_depth = k}

\* C2 as stated: when the cursor's event is a call at depth d, the derived
\* call stack has exactly d + 1 frames.
C2_StackSizeIsDepthPlusOne ==
    (ValidCursor /\ CurrentEvent.event_type \in CallTypes) =>
        Len(InspectorCallStack(events, currentEventIndex))
            = CurrentEvent.call_stack_depth + 1

\* C2, amended: when the cursor's event is a call at depth d, the derived
\* call stack has one frame for each depth 0..d at which a call event occurs
\* at or before the cursor, the cursor's event on top: at most d + 1 frames,
\* and exactly d + 1 when a call event occurs at every depth below d.
C2_OneFramePerOpenedDepth ==
    /\ (ValidCursor /\ CurrentEvent.event_type \in CallTypes) =>
          LET d == CurrentEvent.call_stack_depth
              stack == InspectorCallStack(events, currentEventIndex)
          IN /\ Len(stack) = Cardinality(OpenedDepths(CallTypes, d))
             /\ Len(stack) <= d + 1
             /\ stack[Len(stack)].event = CurrentEvent
             /\ (OpenedDepths(CallTypes, d) = 0 .. d) => Len(stack) = d + 1
    /\ (ValidCursor /\ CurrentEvent.event_type = "function_call") =>
          LET d == CurrentEvent.call_stack_depth
              stack == CallStack(events, currentEventIndex)
          IN /\ Len(stack) = Cardinality(OpenedDepths({"function_call"}, d))
             /\ Len(stack) <= d + 1
             /\ stack[Len(stack)].event = CurrentEvent
             /\ (OpenedDepths({"function_call"}, d) = 0 .. d) => Len(stack) = d + 1

C2_Witness ==
    /\ ValidCursor
    /\ CurrentEvent.event_type = "function_call"
    /\ CurrentEvent.call_stack_depth = 1
    /\ Len(CallStack(events, currentEventIndex)) = 2
    /\ Len(InspectorCallStack(events, currentEventIndex)) = 2

\* C3: seek(i) sets the cursor to i clamped into [-1, length - 1], for every
\* i and every log length, the empty log included.
C3_SeekClamps ==
    lastOp.op = "seek" =>
        currentEventIndex =
            IF lastOp.arg < -1 THEN -1
            ELSE IF lastOp.arg > Len(events) - 1 THEN Len(events) - 1
            ELSE lastOp.arg

C3_Witness ==
    /\ lastOp.op = "seek"
    /\ Len(events) >= 2
    /\ lastOp.arg > Len(events) - 1
    /\ currentEventIndex = Len(events) - 1

\* C4: stepForward and stepBackward move the cursor by exactly one;
\* stepForward at the final index and stepBackward at -1 leave it unchanged.
C4_StepByOne ==
    [][/\ lastOp'.op = "stepForward" =>
            currentEventIndex' = IF currentEventIndex = Len(events) - 1
                                 THEN currentEventIndex
                                 ELSE currentEventIndex + 1
       /\ lastOp'.op = "stepBackward" =>
            currentEventIndex' = IF currentEventIndex = -1
                                 THEN currentEventIndex
                                 ELSE currentEventIndex - 1]_vars

\* C5: once input has stopped, playback that is active with the cursor at
\* the final index stops, and the cursor is still at the final index.
C5_PlaybackStopsAtEnd ==
    (quiescent /\ isPlaying /\ currentEventIndex = Len(events) - 1)
        ~> (~isPlaying /\ currentEventIndex = Len(events) - 1)

C5_Witness ==
    /\ lastOp.op = "autoStop"
    /\ quiescent
    /\ ~isPlaying
    /\ Len(events) >= 2
    /\ currentEventIndex = Len(events) - 1

----------------------------------------------------------------------------
(* Claims about the collector's log and the framing of the stream *)

EventIds(log) == [k \in 1 .. Len(log) |-> log[k].event_id]
StrictlyIncreasing(ids) == \A i, j \in 1 .. Len(ids) : i < j => ids[i] < ids[j]

\* C6: the event_ids of the logged events are strictly increasing in log
\* order, in the server's buffer and in the webview's log, also with more
\* than one tracer connection.
C6_EventIdsStrictlyIncreasing ==
    /\ StrictlyIncreasing(EventIds(eventBuffer))
    /\ StrictlyIncreasing(EventIds(events))

\* C7: an incoming event whose event_id is not greater than that of the last
\* logged event is rejected: the log is left as it was.
C7_OutOfOrderRejected ==
    [][(/\ lastOp'.op = "deliver"
        /\ toWebview # <<>>
        /\ events # <<>>
        /\ Head(toWebview).data.event_id <= events[Len(events)].event_id)
          => events' = events]_vars

Parses(message) == JSONParse(message).ok
ParsedOf(messages) ==
    LET good == SelectSeq(messages, Parses)
    IN [k \in 1 .. Len(good) |-> JSONParse(good[k]).event]

\* the complete lines of a stream: what precedes each newline, back to the
\* newline before it
NewlinesOf(text) == {i \in 1 .. Len(text) : text[i] = Newline}
LineEnding(text, i) ==
    LET before == {j \in NewlinesOf(text) : j < i}
        start == IF before = {} THEN 1
                 ELSE (CHOOSE j \in before : \A k \in before : k <= j) + 1
    IN SubSeq(text, start, i - 1)
CompleteLines(text) ==
    LET ends == SortedSeq(NewlinesOf(text))
    IN [k \in 1 .. Len(ends) |-> LineEnding(text, ends[k])]
Unterminated(text) ==
    LET nl == NewlinesOf(text)
    IN IF nl = {} THEN text
       ELSE SubSeq(text, (CHOOSE j \in nl : \A k \in nl : k <= j) + 1, Len(text))
IsBlank(line) == \A i \in 1 .. Len(line) : line[i] = Space
NotBlank(line) == ~IsBlank(line)

\* C8: a message that does not parse is skipped and logged, neither counted
\* nor buffered, and the messages after it are processed as usual: the
\* buffer holds exactly the events of the messages that parse, in handling
\* order, the counter counts them, every other message handled was logged
\* as an error, and on each connection every complete line that parses has
\* been handled.
C8_MalformedSkipped ==
    /\ eventBuffer = ParsedOf(handledAll)
    /\ totalEvents = Len(SelectSeq(handledAll, Parses))
    /\ parseErrors >= Len(handledAll) - Len(SelectSeq(handledAll, Parses))
    /\ \A c \in Conns :
          Len(SelectSeq(handled[c], Parses))
            = Len(SelectSeq(CompleteLines(received[c]), Parses))

C8_Witness ==
    \E c \in Conns :
        /\ Len(handled[c]) = 2
        /\ ~Parses(handled[c][1])
        /\ Parses(handled[c][2])
        /\ parseErrors = 1
        /\ eventBuffer = <<JSONParse(handled[c][2]).event>>

\* C9: on every connection the messages handled are exactly the complete
\* non-empty lines received, each once and in stream order, however the
\* stream was cut into chunks, and the buffer holds the unterminated rest.
C9_FramingExactlyOnceInOrder ==
    \A c \in Conns :
        /\ handled[c] = SelectSeq(CompleteLines(received[c]), NotBlank)
        /\ connBuf[c] = Unterminated(received[c])

\* a chunk arrived while part of a message was held, and completed it
C9_Witness ==
    /\ lastOp.op = "data"
    /\ lastOp.arg > 0
    /\ \E c \in Conns :
          /\ Len(handled[c]) = 2
          /\ connBuf[c] = <<>>
          /\ wire[c] = <<>>

----------------------------------------------------------------------------
(* Claims about the call tree *)

\* position in the log of the call event a node's parent_event_id names (0
\* when it names no logged call event)
ParentCall(n) ==
    LET named == {i \in 1 .. Len(events) :
                     /\ events[i].event_type \in CallTypes
                     /\ events[i].event_id = events[n].parent_event_id}
    IN IF events[n].parent_event_id = Null \/ named = {} THEN 0
       ELSE CHOOSE i \in named : \A j \in named : j <= i

\* the nearest ancestor of n, by parent_event_id, that has a node (0: none).
\* Parents precede their children in the log, so the walk ends.
RECURSIVE NearestVisibleAncestor(_)
NearestVisibleAncestor(n) ==
    LET p == ParentCall(n)
    IN IF p = 0 \/ p >= n THEN 0
       ELSE IF p \in VisibleCalls(events, filters) THEN p
       ELSE NearestVisibleAncestor(p)

\* the visible call nodes whose parent is a logged call hidden by the filter
ChildrenOfHidden ==
    {n \in VisibleCalls(events, filters) :
        ParentCall(n) # 0 /\ ParentCall(n) \notin VisibleCalls(events, filters)}

\* C10 as stated: a visible child of a hidden call node is attached to its
\* nearest visible ancestor, and is a root only when it has none.
C10_ReattachedToNearestVisibleAncestor ==
    \A n \in ChildrenOfHidden :
        IF NearestVisibleAncestor(n) # 0
        THEN <<NearestVisibleAncestor(n), n>> \in TreeEdges(events, filters)
        ELSE n \in SeqToSet(TreeRoots(events, filters))

\* C10, amended: a visible child of a hidden call node becomes a root of
\* the tree, whether or not it has a visible ancestor, and is the child of
\* no node.
C10_ChildrenOfHiddenBecomeRoots ==
    \A n \in ChildrenOfHidden :
        /\ n \in SeqToSet(TreeRoots(events, filters))
        /\ \A p \in VisibleCalls(events, filters) : <<p, n>> \notin TreeEdges(events, filters)

C10_Witness ==
    \E n \in ChildrenOfHidden :
        /\ NearestVisibleAncestor(n) # 0
        /\ n \in SeqToSet(TreeRoots(events, filters))

\* the visible call nodes whose parent_event_id names no logged event, or a
\* logged event that is not a call
OrphanCalls ==
    {n \in VisibleCalls(events, filters) :
        events[n].parent_event_id # Null /\ ParentCall(n) = 0}

\* C11: a call event whose parent_event_id names no logged event, or an
\* event that is not a call, is a root of the call tree and the child of no
\* node; when the filter lets call events through, every such call event
\* is in the tree.
C11_OrphanCallsAreRoots ==
    /\ \A n \in OrphanCalls :
          /\ n \in SeqToSet(TreeRoots(events, filters))
          /\ \A p \in VisibleCalls(events, filters) : <<p, n>> \notin TreeEdges(events, filters)
    /\ CallTypes \subseteq filters.eventTypes =>
          \A n \in 1 .. Len(events) :
              (/\ events[n].event_type \in CallTypes
               /\ events[n].parent_event_id # Null
               /\ ParentCall(n) = 0) => n \in SeqToSet(TreeRoots(events, filters))

\* one root's parent is a logged return event, another's is in no logged event
C11_Witness ==
    \E n, m \in OrphanCalls :
        /\ \E i \in 1 .. Len(events) :
              /\ events[i].event_id = events[n].parent_event_id
              /\ events[i].event_type = "function_return"
        /\ \A i \in 1 .. Len(events) : events[i].event_id # events[m].parent_event_id
        /\ {n, m} \subseteq SeqToSet(TreeRoots(events, filters))

----------------------------------------------------------------------------
(* Claims about the filters *)

CallEvents == {i \in 1 .. Len(events) : events[i].event_type \in CallTypes}

\* The criteria, each on its own.
MatchesSearch(event) ==
    \E field \in {event.function_name, event.class_name, event.file_path} :
        Includes(ToLowerCase(Chars(field)), ToLowerCase(Chars(filters.searchQuery)))
InAllowedCategory(event) == event.event_type \in filters.eventTypes
InStandardLibrary(event) ==
    \E marker \in StdlibMarkers : Includes(Chars(event.file_path), marker)
IsHot(event) == ExecutionCount(events, event) >= HotPathThreshold
InAllowedFile(event) == event.file_path \in filters.selectedFiles

SatisfiesEveryActiveCriterion(event) ==
    /\ filters.searchQuery # "" => MatchesSearch(event)
    /\ InAllowedCategory(event)
    /\ filters.hideStdlib => ~InStandardLibrary(event)
    /\ filters.showOnlyHotPath => IsHot(event)
    /\ filters.selectedFiles # {} => InAllowedFile(event)

\* C12: the filter lets an event through if and only if the event
\* satisfies every active criterion (search text, category allow-set,
\* standard-library exclusion, hot path, file allow-set), and the call tree
\* shows exactly the call events it lets through.
C12_VisibleIffEveryCriterion ==
    /\ \A i \in 1 .. Len(events) :
          shouldShowEvent(filters, events[i], ExecutionCount(events, events[i]))
            <=> SatisfiesEveryActiveCriterion(events[i])
    /\ VisibleCalls(events, filters)
          = {i \in CallEvents : SatisfiesEveryActiveCriterion(events[i])}

\* four criteria are active at once; one call passes them all, another fails
C12_Witness ==
    /\ filters.searchQuery # ""
    /\ filters.hideStdlib
    /\ filters.showOnlyHotPath
    /\ filters.selectedFiles # {}
    /\ VisibleCalls(events, filters) # {}
    /\ VisibleCalls(events, filters) # CallEvents

\* A criterion is active when its setting is not the default one.
Criteria == {"searchQuery", "showOnlyHotPath", "hideStdlib", "eventTypes", "selectedFiles"}
ActiveCriteria(flt) == {c \in Criteria : flt[c] # DefaultFilters[c]}

\* a step that enables criteria and leaves the log and the active ones alone
EnablesCriterion ==
    /\ events' = events
    /\ ActiveCriteria(filters) \subseteq ActiveCriteria(filters')
    /\ ActiveCriteria(filters) # ActiveCriteria(filters')
    /\ \A c \in ActiveCriteria(filters) : filters'[c] = filters[c]

\* C13: enabling a further criterion never adds an event to the visible
\* set, so the set never grows, whatever the log and the criteria already
\* active.
C13_EnablingNeverIncreases ==
    [][EnablesCriterion =>
          /\ VisibleCalls(events', filters') \subseteq VisibleCalls(events, filters)
          /\ Cardinality(VisibleCalls(events', filters'))
                <= Cardinality(VisibleCalls(events, filters))]_vars

\* the standard-library criterion was just enabled on top of an active
\* category criterion and hides a call that was visible
C13_Witness ==
    /\ lastOp.op = "toggleHideStdlib"
    /\ filters.hideStdlib
    /\ filters.eventTypes # EventTypes
    /\ VisibleCalls(events, filters) # {}
    /\ VisibleCalls(events, filters)
          # VisibleCalls(events, [filters EXCEPT !.hideStdlib = FALSE])

\* C14: with no criterion active the visible set is the unfiltered one:
\* every call event of the log has a node in the tree.
C14_NoCriterionShowsAll ==
    ActiveCriteria(filters) = {} =>
        /\ VisibleCalls(events, filters) = CallEvents
        /\ \A i \in 1 .. Len(events) :
              events[i].event_type \in EventTypes =>
                  shouldShowEvent(filters, events[i], ExecutionCount(events, events[i]))

\* the filters were cleared over a log holding calls of two kinds
C14_Witness ==
    /\ lastOp.op = "clearAllFilters"
    /\ ActiveCriteria(filters) = {}
    /\ \E i, j \in CallEvents :
          /\ events[i].event_type = "function_call"
          /\ events[j].event_type = "method_call" \/ InStandardLibrary(events[j])
    /\ VisibleCalls(events, filters) = CallEvents

\* calls of the event's function among the events at or before the cursor
ExecutionCountAtCursor(event) ==
    Cardinality({i \in 1 .. Min(currentEventIndex + 1, Len(events)) :
        /\ events[i].event_type \in CallTypes
        /\ events[i].file_path = event.file_path
        /\ events[i].function_name = event.function_name})

\* C15 as stated: the hot-path filter counts executions among the events at
\* or before the cursor: with the filter on, a call is visible exactly when
\* its function has been called at least the threshold number of times by
\* then.
C15_HotPathAsOfCursor ==
    (filters.showOnlyHotPath /\ currentEventIndex < Len(events)) =>
        \A i \in CallEvents :
            i \in VisibleCalls(events, filters)
              <=> ExecutionCountAtCursor(events[i]) >= HotPathThreshold

\* calls of the event's function in the whole log
CallsInLog(event) ==
    Cardinality({j \in CallEvents :
        /\ events[j].file_path = event.file_path
        /\ events[j].function_name = event.function_name})

\* C15, amended: the hot-path filter counts executions over the whole log,
\* wherever the cursor is: with the filter on, a call is visible exactly
\* when its function is called at least the threshold number of times in
\* the log, and a move of the cursor changes no event's visibility.
C15_HotPathOverWholeLog ==
    /\ [](filters.showOnlyHotPath =>
            \A i \in CallEvents :
                i \in VisibleCalls(events, filters)
                  <=> CallsInLog(events[i]) >= HotPathThreshold)
    /\ [][(events' = events /\ filters' = filters) =>
            VisibleCalls(events', filters') = VisibleCalls(events, filters)]_vars

\* the cursor is before all the calls of a hot function, which are visible
C15_Witness ==
    /\ filters.showOnlyHotPath
    /\ lastOp.op = "seek"
    /\ currentEventIndex < Len(events)
    /\ \E i \in VisibleCalls(events, filters) :
          /\ ExecutionCountAtCursor(events[i]) < HotPathThreshold
          /\ CallsInLog(events[i]) >= HotPathThreshold

\* C16: with the hot-path filter on, the calls of a function called exactly
\* 5 times are visible and those of a function called 4 times are not.
C16_HotPathBoundaryInclusive ==
    filters.showOnlyHotPath =>
        \A i \in CallEvents :
            /\ ExecutionCount(events, events[i]) = 5 => i \in VisibleCalls(events, filters)
            /\ ExecutionCount(events, events[i]) = 4 => i \notin VisibleCalls(events, filters)

C16_Witness ==
    /\ filters.showOnlyHotPath
    /\ \E i, j \in CallEvents :
          /\ ExecutionCount(events, events[i]) = 5
          /\ ExecutionCount(events, events[j]) = 4
          /\ i \in VisibleCalls(events, filters)
          /\ j \notin VisibleCalls(events, filters)

----------------------------------------------------------------------------
(* Claims about the heat map, the coverage, the registry and the transitions *)

\* the heat map's count for a line of a file with the cursor at idx: the
\* heat map holds counts for the file of the event at the cursor only, and
\* a line without an entry counts 0
HeatmapCount(file, line, idx) ==
    IF HasCurrentEvent(events, idx) /\ events[idx + 1].file_path = file
    THEN ExecutionCountOfLine(LineExecutionCounts(events, idx, projectFiles), line)
    ELSE 0

\* events at or before position idx on the line of the file
EventsOnLine(file, line, idx) ==
    Cardinality({k \in 1 .. idx + 1 :
        events[k].file_path = file /\ events[k].line_number = line})

LoggedLines(file) ==
    {events[k].line_number : k \in {i \in 1 .. Len(events) : events[i].file_path = file}}

\* C18: for every registered file, the coverage is the number of distinct
\* line numbers of the logged events of the file over the file's line
\* count, in whatever order the events and the registration arrived.
C18_CoverageOfLoggedLines ==
    \A file \in DOMAIN projectFiles :
        /\ projectFiles[file].executedLines = LoggedLines(file)
        /\ Coverage(projectFiles[file])
             = RoundedPercent(Cardinality(LoggedLines(file)), projectFiles[file].totalLines)

\* the content captured at registration
Content(file) ==
    [filePath |-> file.filePath, relativePath |-> file.relativePath, code |-> file.code,
     lines |-> file.lines, totalLines |-> file.totalLines, firstSeen |-> file.firstSeen]

\* C19: a registration message for a path that is registered changes
\* nothing, and neither events nor registration messages remove an entry
\* or change the content captured when the path was first registered.
C19_RegistrationIdempotent ==
    [][lastOp'.op \in {"fileMetadata", "traceData"} =>
          \A path \in DOMAIN projectFiles :
              /\ path \in DOMAIN projectFiles'
              /\ Content(projectFiles'[path]) = Content(projectFiles[path])
              /\ lastOp'.op = "fileMetadata" => projectFiles'[path] = projectFiles[path]]_vars

\* a second registration arrived, with another content, for a file that
\* has events; the first content is still held
C19_Witness ==
    /\ lastOp = Op("fileMetadata", 1)
    /\ \E path \in DOMAIN projectFiles :
          /\ projectFiles[path].events # <<>>
          /\ projectFiles[path].code = FileMetadataOf(path, 1).code
          /\ projectFiles[path].totalLines = 2

FilePaths(evs) == [k \in 1 .. Len(evs) |-> evs[k].file_path]
FilePairs(calls) == [k \in 1 .. Len(calls) |-> <<calls[k].from_file, calls[k].to_file>>]

\* one transition for each pair of consecutive traced events in different
\* files, in order
ExpectedTransitions ==
    LET crossings == SortedSeq({k \in 1 .. Len(traced) - 1 :
                                   traced[k].file_path # traced[k + 1].file_path})
    IN [n \in 1 .. Len(crossings) |->
          [type |-> "cross_file_call",
           from_file |-> traced[crossings[n]].file_path,
           to_file |-> traced[crossings[n] + 1].file_path,
           from_event_id |-> traced[crossings[n]].event_id,
           to_event_id |-> traced[crossings[n] + 1].event_id]]

----------------------------------------------------------------------------
(* Claims about the views as functions of the log, and about the store's steps *)

\* the four derived views, as the components compute them from the store
ViewsOf(evs, idx, flt, files) ==
    [stack |-> InspectorCallStack(evs, idx),
     tree |-> <<TreeRoots(evs, flt), TreeEdges(evs, flt)>>,
     heatmap |-> LineExecutionCounts(evs, idx, files),
     coverage |-> [path \in DOMAIN files |-> Coverage(files[path])]]

\* a registry holding the given contents and nothing executed
FreshRegistry(files) ==
    [path \in DOMAIN files |->
        [filePath |-> files[path].filePath, relativePath |-> files[path].relativePath,
         code |-> files[path].code, lines |-> files[path].lines,
         totalLines |-> files[path].totalLines, executedLines |-> {},
         events |-> <<>>, firstSeen |-> files[path].firstSeen]]

\* the registry after addEvent has been applied to each event of the log
RECURSIVE Replay(_, _)
Replay(files, evs) ==
    IF evs = <<>> THEN files
    ELSE LET event == Head(evs)
             next == IF event.file_path \in DOMAIN files
                     THEN [files EXCEPT ![event.file_path] =
                             [@ EXCEPT !.executedLines = @ \cup {event.line_number},
                                       !.events = Append(@, event)]]
                     ELSE files
         IN Replay(next, Tail(evs))

\* C21: the derived views (stack, tree, heat map, coverage) are determined
\* by the log, the cursor and the filters: they are the views of a store
\* that holds the same registered contents and was given the same log, with
\* the same cursor and filters.
C21_ViewsDeterminedByLog ==
    ViewsOf(events, currentEventIndex, filters, projectFiles)
        = ViewsOf(events, currentEventIndex, filters,
                  Replay(FreshRegistry(projectFiles), events))

\* the logged events of a file
EventsOfFile(path) == SelectSeq(events, LAMBDA e : e.file_path = path)

IsSuffix(part, whole) ==
    /\ Len(part) <= Len(whole)
    /\ SubSeq(whole, Len(whole) - Len(part) + 1, Len(whole)) = part

\* C22: a reader never sees an append or a cursor move half applied.  In
\* every state a registered file holds the events logged for it since its
\* registration and exactly their lines, and the cursor is within the log;
\* an append changes the log and the file's entry in the same step, a
\* cursor move changes the cursor and nothing else.
C22_MutationsAtomic ==
    /\ [](/\ \A path \in DOMAIN projectFiles :
               /\ IsSuffix(projectFiles[path].events, EventsOfFile(path))
               /\ projectFiles[path].executedLines
                    = {projectFiles[path].events[k].line_number :
                          k \in 1 .. Len(projectFiles[path].events)}
          /\ currentEventIndex \in -1 .. Len(events) - 1)
    /\ [][/\ lastOp'.op = "traceData" =>
                LET event == events'[Len(events')]
                IN /\ events' = Append(events, event)
                   /\ event.file_path \in DOMAIN projectFiles =>
                         /\ event.line_number
                               \in projectFiles'[event.file_path].executedLines
                         /\ projectFiles'[event.file_path].events
                               = Append(projectFiles[event.file_path].events, event)
          /\ lastOp'.op = "seek" =>
                /\ currentEventIndex' = ClampIndex(lastOp'.arg, events)
                /\ UNCHANGED <<events, projectFiles>>]_vars

\* an event of a registered file has just been appended, the second of
\* that file since its registration, with the cursor on an event
C22_Witness ==
    /\ lastOp.op = "traceData"
    /\ events # <<>>
    /\ currentEventIndex >= 0
    /\ LET event == events[Len(events)]
       IN /\ event.file_path \in DOMAIN projectFiles
          /\ Len(projectFiles[event.file_path].events) = 2
          /\ projectFiles[event.file_path].events[2] = event
          /\ Len(EventsOfFile(event.file_path)) = 3

----------------------------------------------------------------------------
(* Claims about unmatched calls and returns *)

ReturnTypes == {"function_return", "method_return"}

\* the frame opened at depth d is still open before position idx (0-based):
\* the latest earlier call or return at that depth is a call
OpenCallAt(idx, d) ==
    \E j \in 1 .. idx :
        /\ events[j].event_type \in CallTypes
        /\ events[j].call_stack_depth = d
        /\ \A k \in j + 1 .. idx :
              ~(events[k].event_type \in ReturnTypes /\ events[k].call_stack_depth = d)

FrameDepths(stack) == {stack[k].depth : k \in 1 .. Len(stack)}

\* C23: with the cursor on a return at depth d that has no matching open
\* call, the derived stack holds no frame at depth d (the nearest frame at
\* that depth is closed), and the view is produced without an error.
C23_UnmatchedReturnClosesFrame ==
    (/\ ValidCursor
     /\ CurrentEvent.event_type \in ReturnTypes
     /\ ~OpenCallAt(currentEventIndex, CurrentEvent.call_stack_depth)) =>
        /\ ~CallStackThrows(events, currentEventIndex)
        /\ CurrentEvent.call_stack_depth
              \notin FrameDepths(CallStack(events, currentEventIndex))
        /\ CurrentEvent.call_stack_depth
              \notin FrameDepths(InspectorCallStack(events, currentEventIndex))

\* the call at position j (1-based) has no later return at its depth
UnmatchedCall(j) ==
    /\ events[j].event_type \in CallTypes
    /\ \A k \in j + 1 .. Len(events) :
          ~(/\ events[k].event_type \in ReturnTypes
            /\ events[k].call_stack_depth = events[j].call_stack_depth)

\* the call at position j is a frame of the stack
OnStack(stack, j) ==
    \E k \in 1 .. Len(stack) :
        stack[k].event = events[j] /\ stack[k].depth = events[j].call_stack_depth

HoldsDepth(j, callTypes) ==
    /\ events[j].event_type \in callTypes
    /\ CurrentEvent.call_stack_depth >= events[j].call_stack_depth
    /\ \A k \in j + 1 .. currentEventIndex + 1 :
          ~(/\ events[k].event_type \in callTypes
            /\ events[k].call_stack_depth = events[j].call_stack_depth)

----------------------------------------------------------------------------
(* Claims about rebuilding the tree *)

\* the tree the component builds from the store: its roots and its edges
CallTree == [roots |-> TreeRoots(events, filters), edges |-> TreeEdges(events, filters)]

----------------------------------------------------------------------------
(* Claims about the routing of messages *)

\* the tag of a parsed message: file_metadata, cross_file_call, or none
TypeTag(value) == IF "type" \in DOMAIN value THEN value.type ELSE ""

\* the webview message type the collector is to use for a tag
RoutedAs(tag) ==
    CASE tag = "file_metadata" -> "fileMetadata"
      [] tag = "cross_file_call" -> "crossFileCall"
      [] OTHER -> "traceData"

\* C26: every message the collector posts to the webview carries the
\* webview type of its tag (file_metadata as fileMetadata, cross_file_call
\* as crossFileCall, anything else as traceData), and the event log holds
\* untagged events only.
C26_RoutedByTypeTag ==
    /\ \A k \in 1 .. Len(toWebview) :
          toWebview[k].type = RoutedAs(TypeTag(toWebview[k].data))
    /\ \A k \in 1 .. Len(events) : TypeTag(events[k]) = ""

----------------------------------------------------------------------------
(* Claims about pause and about appending *)

\* C27: a trace event that arrives while the webview is paused is not added
\* to the log, which stays as it is; one that arrives while it is not
\* paused, after a pause has been lifted included, is added at the end.
C27_PausedEventsNotAdded ==
    [][lastOp'.op = "traceData" =>
          IF isPaused
          THEN events' = events
          ELSE /\ Len(events') = Len(events) + 1
               /\ SubSeq(events', 1, Len(events)) = events]_vars

\* an event has just arrived and been dropped: the webview is paused and
\* the log holds what was added before the pause
C27_Witness ==
    /\ lastOp = Op("traceData", 1)
    /\ isPaused
    /\ Len(events) = 2

\* C28: appending an event adds exactly one entry, the event, at the end of
\* the log; every event logged before keeps its content and its position.
C28_AppendKeepsPrefix ==
    [][lastOp'.op = "traceData" =>
          /\ Len(events') = Len(events) + 1
          /\ \A k \in 1 .. Len(events) : events'[k] = events[k]
          /\ events'[Len(events')].event_id = Len(events) + 1]_vars

\* a return has just been appended after two calls, which are where and
\* what they were
C28_Witness ==
    /\ lastOp.op = "traceData"
    /\ Len(events) = 3
    /\ events[1] = TracerEvent(<<>>, "function_call", 0)
    /\ events[2].event_type = "method_call"
    /\ events[3].event_type = "function_return"

----------------------------------------------------------------------------
(* Claims about export *)

\* C29: the exported log is versioned and holds every event of the log,
\* every registered source file and the cross-file calls of the session.
C29_ExportHoldsWholeSession ==
    (lastOp.op \in {"exportToJSON", "copyToClipboard"}) =>
        /\ "version" \in DOMAIN ExportData
        /\ ExportData.events = events
        /\ DOMAIN ExportData.projectFiles = DOMAIN projectFiles
        /\ "crossFileCalls" \in DOMAIN ExportData

----------------------------------------------------------------------------
(* The visualizer panel: opened, closed and opened again while a tracer sends *)

PanelNext ==
    \/ TracerSendEvent(1)
    \/ \E n \in 1 .. Len(wire[1]) : OnData(1, n)
    \/ CreateOrShow
    \/ \E p \in 1 .. Len(panels) : Dispose(p)
    \/ WebviewDeliver
    \/ TogglePause

SpecPanel == Init /\ [][PanelNext]_vars

\* the webview panels that exist
LivePanels == {p \in 1 .. Len(panels) : panels[p] = "live"}

\* C31: at most one visualizer panel exists at any time, and currentPanel is
\* set exactly while one exists; createOrShow while a panel exists creates
\* none, disposing the panel clears currentPanel, and createOrShow without a
\* current panel creates a new one, which is then the current panel.
C31_AtMostOnePanel ==
    /\ [](Cardinality(LivePanels) <= 1 /\ (panelOpen <=> LivePanels # {}))
    /\ [][/\ (lastOp'.op = "createOrShow" /\ panelOpen) => (panels' = panels /\ panelOpen')
          /\ (lastOp'.op = "dispose") => (~panelOpen' /\ LivePanels' = {})
          /\ (lastOp'.op = "createOrShow" /\ ~panelOpen) =>
                 /\ panelOpen'
                 /\ LivePanels' = {Len(panels) + 1}]_vars

\* a second panel has been created after the first one was disposed
C31_Witness ==
    /\ lastOp = Op("createOrShow", 1)
    /\ Len(panels) = 2
    /\ panels[1] = "disposed"
    /\ panelOpen

----------------------------------------------------------------------------
(* The probe when its transport fails in mid-session *)

ProbeNext ==
    \/ Connect
    \/ TransportFails
    \/ \E file \in {"a.py", "b.py"} : HookFiring(file)

SpecProbe == Init /\ [][ProbeNext]_vars

----------------------------------------------------------------------------
(* The cursor and the log *)

\* C33: in every reachable state of the store the cursor is -1 or the index
\* of a logged event: -1 <= currentEventIndex <= events.length - 1.
C33_CursorWithinLog ==
    /\ -1 <= currentEventIndex
    /\ currentEventIndex <= Len(events) - 1

----------------------------------------------------------------------------
(* The TraceServer's life cycle *)

LifecycleNext ==
    \/ Start
    \/ Stop
    \/ Toggle
    \/ \E s \in 1 .. Len(netServers) : ListenDone(s)

SpecLifecycle == Init /\ [][LifecycleNext]_vars

\* C34: under every interleaving of start, stop, toggle and the completion of
\* binding, isRunning is true exactly when this.server is a listening server,
\* and at most one server the TraceServer created is listening.
C34_RunningIffListening ==
    /\ isRunning <=> (server # 0 /\ netServers[server] = "listening")
    /\ Cardinality(Listening) <= 1

----------------------------------------------------------------------------
(* Delivery of the buffered events to the visualizer *)

\* every element of sub occurs in seq, in the same order
RECURSIVE Embeds(_, _)
Embeds(sub, seq) ==
    IF sub = <<>> THEN TRUE
    ELSE IF seq = <<>> THEN FALSE
    ELSE IF Head(sub) = Head(seq) THEN Embeds(Tail(sub), Tail(seq))
    ELSE Embeds(sub, Tail(seq))

\* C35: once a panel is open and not paused and the webview has handled what
\* was posted to it, its event log contains every event of the server's event
\* buffer, in the same order.
C35_BufferedEventsDelivered ==
    (panelOpen /\ ~isPaused /\ toWebview = <<>>) => Embeds(eventBuffer, events)

----------------------------------------------------------------------------
(* Playback: the Timeline's timer *)

\* C36: each period of the playback timer advances the cursor by exactly one
\* event, and once input has stopped, with playback on and the cursor before
\* the final index, the cursor reaches the final index.
C36_PlaybackAdvancesToEnd ==
    /\ [][lastOp'.op = "tick" =>
             /\ currentEventIndex' = currentEventIndex + 1
             /\ currentEventIndex' <= Len(events) - 1
             /\ events' = events]_vars
    /\ (quiescent /\ isPlaying /\ currentEventIndex < Len(events) - 1)
          ~> (currentEventIndex = Len(events) - 1)

\* the timer has stepped the cursor onto the final index of a log of three
\* events or more after input had stopped
C36_Witness ==
    /\ lastOp.op = "tick"
    /\ quiescent
    /\ Len(events) >= 3
    /\ currentEventIndex = Len(events) - 1

----------------------------------------------------------------------------
(* The frame of addEvent *)

\* C37: receiving a new event changes neither the cursor nor the playback
\* state: currentEventIndex, isPlaying and playbackSpeed are what they were.
C37_AddEventKeepsCursorAndPlayback ==
    [][lastOp'.op = "traceData" =>
          /\ currentEventIndex' = currentEventIndex
          /\ isPlaying' = isPlaying
          /\ playbackSpeed' = playbackSpeed]_vars

\* an event was appended during playback at another speed, with the cursor
\* in the middle of the log
C37_Witness ==
    /\ lastOp = Op("traceData", 0)
    /\ isPlaying
    /\ playbackSpeed = "2"
    /\ currentEventIndex >= 0
    /\ currentEventIndex < Len(events) - 1
    /\ Len(events) >= 3

----------------------------------------------------------------------------
(* The views at cursor -1 *)

\* the lines of the file at path on which an event is logged
LoggedLinesOf(path) ==
    {events[i].line_number : i \in {k \in 1 .. Len(events) : events[k].file_path = path}}

\* C38: at cursor -1 every cursor-driven view treats no event as executed:
\* the call stack is empty and no line of any registered file is shown as
\* executed.
C38_NothingExecutedBeforeFirst ==
    currentEventIndex = -1 =>
        /\ CallStack(events, currentEventIndex) = <<>>
        /\ \A path \in DOMAIN projectFiles :
               LinesShownExecuted(events, currentEventIndex, path) = {}

\* C38 as the code has it: at cursor -1 the call stacks are empty, no node of
\* the tree is in the current path and the code context counts nothing, but
\* the file view takes -1 for "not playing back" and shows every logged line
\* of the file as executed.
C38_FileViewShowsWholeLogBeforeFirst ==
    currentEventIndex = -1 =>
        /\ CallStack(events, currentEventIndex) = <<>>
        /\ InspectorCallStack(events, currentEventIndex) = <<>>
        /\ \A eventIndex \in 0 .. Len(events) - 1 :
               ~isInCurrentPath(eventIndex, currentEventIndex)
        /\ LineExecutionCounts(events, currentEventIndex, projectFiles) = <<>>
        /\ \A path \in DOMAIN projectFiles :
               LinesShownExecuted(events, currentEventIndex, path) = LoggedLinesOf(path)

\* the cursor has been moved back to -1 over a log with events on two lines
\* of a registered file
C38_Witness ==
    /\ currentEventIndex = -1
    /\ lastOp.op = "seek"
    /\ "a.py" \in DOMAIN projectFiles
    /\ LoggedLinesOf("a.py") = {1, 2}

----------------------------------------------------------------------------
(* The server's event buffer and its counter *)

BufferNext ==
    \/ \E c \in Conns : TracerSendEvent(c)
    \/ \E c \in Conns : TracerSendMalformed(c)
    \/ \E c \in Conns : TracerSendBlank(c)
    \/ \E c \in Conns : \E n \in 1 .. Len(wire[c]) : OnData(c, n)
    \/ CreateOrShow
    \/ ClearEventBuffer

SpecBuffer == Init /\ [][BufferNext]_vars

\* C39: totalEvents equals the number of events in the event buffer, after
\* any sequence of well-formed lines, malformed lines and clearEventBuffer
\* calls.
C39_CounterEqualsBufferLength == totalEvents = Len(eventBuffer)

\* a well-formed and a malformed line have been handled and the buffer, then
\* holding one event, has been cleared
C39_Witness ==
    /\ lastOp = Op("clearEventBuffer", 1)
    /\ parseErrors = 1
    /\ Len(handledAll) = 2
    /\ totalEvents = 0

====
